---------------------------- MODULE Spec2Model ----------------------------
(***************************************************************************)
(* A model of the Jack compiler of this repository: JackTokenizer (the     *)
(* token cursor and the token classification), SymbolTable, VMWriter and   *)
(* the recursive-descent CompilationEngine in VM mode and in XML mode.     *)
(*                                                                         *)
(* Tokens are the raw lexemes the tokenizer keeps in _tokens (a string     *)
(* constant keeps its double quotes).  An emitted VM line is the tuple of  *)
(* the parts VMWriter._write joins with single spaces, every part already  *)
(* converted with str().  The recursion of the engine is an explicit       *)
(* stack of frames: an action is the code of one method between two calls  *)
(* of (or returns from) the mutually recursive compile_* methods.          *)
(***************************************************************************)
EXTENDS Integers, Sequences, FiniteSets, TLC

VARIABLES
    tokens,          \* JackTokenizer._tokens: the lexemes not yet consumed
    current_token,   \* JackTokenizer._current_token (None before advance)
    class_scope,     \* SymbolTable._class_scope: name -> [type, kind, index]
    sub_scope,       \* SymbolTable._sub_scope
    counters,        \* SymbolTable._counters: kind -> running index
    class_name,      \* CompilationEngine.class_name
    label_counter,   \* CompilationEngine._label_counter
    out,             \* the lines written to the output stream
    pc,              \* the code point the engine is at
    stack,           \* the pending calls of the compile_* methods
    ret,             \* the value the last method returned
    err,             \* the exception that ended the compilation, or NoError
    src,             \* history: the token list the tokenizer was built with
    matched,         \* history: every successful _expect_*: <<how, wanted, lexeme>>
    sub_log,         \* history: one record per subroutine header compiled
    let_log,         \* history: one record per array let statement compiled
    call_log,        \* history: one record per subroutine call compiled
    xml_mode,        \* CompilationEngine.xml_mode
    indent_count,    \* CompilationEngine._indent_count
    expr_log,        \* history: one record per expression compiled
    source,          \* the text the tokenizer was built from, where modelled
    err_line,        \* the line number in the tokenizer's error message
    calls            \* history: the calls made on an object driven directly

vars == <<tokens, current_token, class_scope, sub_scope, counters, class_name,
          label_counter, out, pc, stack, ret, err, src, matched, sub_log,
          let_log, call_log, xml_mode, indent_count, expr_log, source,
          err_line, calls>>

None == "<None>"
NoError == "none"

-----------------------------------------------------------------------------
(* Bounds of the model.                                                    *)

\* The interpreter's limit on nested calls, scaled down: nested compile_*
\* calls beyond it end the compilation with a RecursionError.
RecursionLimit == 12

-----------------------------------------------------------------------------
(* JackTokenizer                                                           *)

KEYWORDS ==
    {"class", "constructor", "function", "method", "field", "static",
     "var", "int", "char", "boolean", "void", "true", "false", "null",
     "this", "let", "do", "if", "else", "while", "return"}

SYMBOLS ==
    {"{", "}", "(", ")", "[", "]", ".", ",", ";",
     "+", "-", "*", "/", "&", "|", "<", ">", "=", "~"}

\* The decimal literals of the model's vocabulary, by value.
IntLiterals == {0, 1, 7, 32767, 32768}

\* The texts of the string constants of the model's vocabulary, as the
\* sequences of their characters.
StringTexts ==
    {<<>>, <<"H", "i">>, <<"l", "e", "t">>, <<"d", "o">>, <<"i", "f">>,
     <<"{">>, <<"}">>, <<"(">>, <<")">>, <<"[">>, <<"]">>, <<".">>, <<",">>,
     <<";">>, <<"=">>}

RECURSIVE Join(_)
Join(cs) == IF cs = <<>> THEN "" ELSE Head(cs) \o Join(Tail(cs))

Quote(text) == "\"" \o text \o "\""

\* str.isdigit() on the vocabulary: the token is a decimal literal.
DigitStrings == {ToString(n) : n \in IntLiterals}

isdigit(token) == token \in DigitStrings

\* token.startswith('"') and token.endswith('"')
QuotedStrings == {Quote(Join(cs)) : cs \in StringTexts}

is_quoted(token) == token \in QuotedStrings

token_type(token) ==
    IF token \in KEYWORDS THEN "KEYWORD"
    ELSE IF token \in SYMBOLS THEN "SYMBOL"
    ELSE IF isdigit(token) THEN "INT_CONST"
    ELSE IF is_quoted(token) THEN "STRING_CONST"
    ELSE "IDENTIFIER"

int_val(token) == CHOOSE n \in IntLiterals : ToString(n) = token

\* token.strip('"'): the text between the quotes.
string_val(token) ==
    Join(CHOOSE cs \in StringTexts : Quote(Join(cs)) = token)

get_token_string(token) ==
    IF token_type(token) = "INT_CONST" THEN ToString(int_val(token))
    ELSE IF token_type(token) = "STRING_CONST" THEN string_val(token)
    ELSE token

\* The characters of a source text, one string each.
Letters ==
    {"a", "b", "c", "d", "e", "f", "g", "h", "i", "j", "k", "l", "m", "n",
     "o", "p", "q", "r", "s", "t", "u", "v", "w", "x", "y", "z",
     "A", "B", "C", "D", "E", "F", "G", "H", "I", "J", "K", "L", "M", "N",
     "O", "P", "Q", "R", "S", "T", "U", "V", "W", "X", "Y", "Z"}

Digits == {"0", "1", "2", "3", "4", "5", "6", "7", "8", "9"}

\* \w
WordChars == Letters \cup Digits \cup {"_"}

\* str.isspace() on the characters of a line
Spaces == {" ", "\t"}

\* The least position from `from` on where text has the characters a, b, or
\* 0 when there is none.
FindPair(text, from, a, b) ==
    LET at == {j \in from..(Len(text) - 1) : text[j] = a /\ text[j + 1] = b}
    IN  IF at = {} THEN 0 ELSE CHOOSE j \in at : \A k \in at : j <= k

RECURSIVE remove_block_comments(_)
\* re.sub(r"/\*.*?\*/", "", source, flags=re.DOTALL): the text up to the
\* first comment that is closed, then the text after it, likewise.
remove_block_comments(text) ==
    LET Closed(start, end) ==
            IF start = 0 \/ end = 0 THEN text
            ELSE SubSeq(text, 1, start - 1)
                 \o remove_block_comments(SubSeq(text, end + 2, Len(text)))
        Opened(start) ==
            Closed(start, IF start = 0 THEN 0
                          ELSE FindPair(text, start + 2, "*", "/"))
    IN  Opened(FindPair(text, 1, "/", "*"))

\* The text from its first line break on.
skip_line(text) ==
    LET breaks == {j \in 1..Len(text) : text[j] = "\n"}
    IN  IF breaks = {} THEN <<>>
        ELSE SubSeq(text, CHOOSE j \in breaks : \A k \in breaks : j <= k,
                    Len(text))

RECURSIVE remove_line_comments(_)
\* re.sub(r"//.*", "", source)
remove_line_comments(text) ==
    LET Marked(start) ==
            IF start = 0 THEN text
            ELSE SubSeq(text, 1, start - 1)
                 \o remove_line_comments(
                        skip_line(SubSeq(text, start, Len(text))))
    IN  Marked(FindPair(text, 1, "/", "/"))

remove_comments(text) == remove_line_comments(remove_block_comments(text))

\* str.splitlines() of a text whose line breaks are "\n": a line ends before
\* each line break, and the characters after the last one are a line too.
splitlines(text) ==
    LET breaks == {j \in 1..Len(text) : text[j] = "\n"}
        Break(i) ==
            CHOOSE j \in breaks : Cardinality({k \in breaks : k < j}) = i - 1
        First(i) == IF i = 1 THEN 1 ELSE Break(i - 1) + 1
        Last(i) ==
            IF i <= Cardinality(breaks) THEN Break(i) - 1 ELSE Len(text)
        count ==
            IF text = <<>> \/ text[Len(text)] = "\n" THEN Cardinality(breaks)
            ELSE Cardinality(breaks) + 1
    IN  [i \in 1..count |-> SubSeq(text, First(i), Last(i))]

\* The position after the longest run of characters of S from pos on.
RunEnd(line, pos, S) ==
    LET others == {j \in pos..Len(line) : line[j] \notin S}
    IN  IF others = {} THEN Len(line) + 1
        ELSE CHOOSE j \in others : \A k \in others : j <= k

\* token_re, were << and >> among its symbols.
token_re_shift_symbols(line, pos) ==
    LET c == line[pos]
        closing == {j \in (pos + 1)..Len(line) : line[j] = "\""}
    IN  IF c \in {"<", ">"} /\ pos < Len(line) /\ line[pos + 1] = c
        THEN pos + 2
        ELSE IF c \in SYMBOLS THEN pos + 1
        ELSE IF c \in Digits THEN RunEnd(line, pos, Digits)
        ELSE IF c \in Letters \cup {"_"} THEN RunEnd(line, pos, WordChars)
        ELSE IF c = "\"" /\ closing # {}
             THEN (CHOOSE j \in closing : \A k \in closing : j <= k) + 1
        ELSE pos

\* token_re.match(line, pos): the position after the match, or pos when the
\* pattern does not match there.
token_re(line, pos) ==
    LET c == line[pos]
        closing == {j \in (pos + 1)..Len(line) : line[j] = "\""}
    IN  IF c \in SYMBOLS THEN pos + 1
        ELSE IF c \in Digits THEN RunEnd(line, pos, Digits)
        ELSE IF c \in Letters \cup {"_"} THEN RunEnd(line, pos, WordChars)
        ELSE IF c = "\"" /\ closing # {}
             THEN (CHOOSE j \in closing : \A k \in closing : j <= k) + 1
        ELSE pos

RECURSIVE scan_line(_, _)
\* The tokens of a line from pos on; ok is FALSE when a character matches
\* nothing.
scan_line(line, pos) ==
    IF pos > Len(line) THEN [tokens |-> <<>>, ok |-> TRUE]
    ELSE IF line[pos] \in Spaces
         THEN scan_line(line, RunEnd(line, pos, Spaces))
    ELSE IF token_re(line, pos) = pos THEN [tokens |-> <<>>, ok |-> FALSE]
    ELSE LET rest == scan_line(line, token_re(line, pos))
         IN  [tokens |-> <<Join(SubSeq(line, pos, token_re(line, pos) - 1))>>
                         \o rest.tokens,
              ok |-> rest.ok]

RECURSIVE Extend(_, _, _)
\* tokens.append over the lines from the first-th to the last-th, scanned.
Extend(scanned, first, last) ==
    IF first > last THEN <<>>
    ELSE IF first = last THEN scanned[first].tokens
    ELSE Extend(scanned, first, (first + last) \div 2)
         \o Extend(scanned, (first + last) \div 2 + 1, last)

\* The tokens of the lines, the first of them numbered line_no; line is the
\* number of the first line with an invalid character, 0 when there is none.
scan_lines(lines, line_no) ==
    LET scanned == [i \in 1..Len(lines) |-> scan_line(lines[i], 1)]
        invalid == {i \in 1..Len(lines) : ~scanned[i].ok}
    IN  IF invalid # {}
        THEN [tokens |-> <<>>,
              line |-> line_no - 1
                       + CHOOSE i \in invalid : \A k \in invalid : i <= k]
        ELSE [tokens |-> Extend(scanned, 1, Len(lines)), line |-> 0]

\* _tokenize
tokenize(text) == scan_lines(splitlines(remove_comments(text)), 1)

\* A machine state m is the record of the variables a method reads and
\* writes; the helpers below thread it through a method's statements.  Once
\* m.err is set the rest of the method is skipped, as after a raise.
Ok(m) == m.err = NoError

Raise(m, e) == IF Ok(m) THEN [m EXCEPT !.err = e] ELSE m

has_more_tokens(m) == m.tokens # <<>>

\* advance, were the token taken left at the head of the list.
advance_keep_token(m) ==
    IF ~Ok(m) THEN m
    ELSE IF has_more_tokens(m)
         THEN [m EXCEPT !.current_token = Head(m.tokens)]
         ELSE m

advance(m) ==
    IF ~Ok(m) THEN m
    ELSE IF has_more_tokens(m)
         THEN [m EXCEPT !.current_token = Head(m.tokens),
                        !.tokens = Tail(m.tokens)]
         ELSE m

\* get_next_token: the value returned is in m.ret.
get_next_token(m) ==
    [m EXCEPT !.ret = IF m.tokens # <<>> THEN Head(m.tokens) ELSE None]

-----------------------------------------------------------------------------
(* SymbolTable                                                             *)

CLASS_KINDS == {"STATIC", "FIELD"}
SUB_KINDS == {"ARG", "VAR"}
ALL_KINDS == CLASS_KINDS \cup SUB_KINDS

\* A dict with no key.
EmptyScope == <<>>

\* dict[name] = entry
Put(scope, name, entry) ==
    [n \in (DOMAIN scope) \cup {name} |-> IF n = name THEN entry ELSE scope[n]]

Symbol(type, kind, index) == [type |-> type, kind |-> kind, index |-> index]

\* str.upper() on the kinds the engine passes.
upper(s) ==
    CASE s = "static" -> "STATIC"
      [] s = "field" -> "FIELD"
      [] s = "arg" -> "ARG"
      [] s = "var" -> "VAR"
      [] OTHER -> s

\* start_subroutine, were it to start the whole table afresh.
start_subroutine_clear_all(m) ==
    IF ~Ok(m) THEN m
    ELSE [m EXCEPT !.sub_scope = EmptyScope,
                   !.class_scope = EmptyScope,
                   !.counters = [k \in DOMAIN @ |-> 0]]

\* start_subroutine, were the VAR counter left as the last subroutine had it.
start_subroutine_keep_var(m) ==
    IF ~Ok(m) THEN m
    ELSE [m EXCEPT !.sub_scope = EmptyScope,
                   !.counters = [@ EXCEPT !["ARG"] = 0]]

\* start_subroutine, were the ARG counter left as the last subroutine had it.
start_subroutine_keep_arg(m) ==
    IF ~Ok(m) THEN m
    ELSE [m EXCEPT !.sub_scope = EmptyScope,
                   !.counters = [@ EXCEPT !["VAR"] = 0]]

start_subroutine(m) ==
    IF ~Ok(m) THEN m
    ELSE [m EXCEPT !.sub_scope = EmptyScope,
                   !.counters = [@ EXCEPT !["ARG"] = 0, !["VAR"] = 0]]

\* define, were the running index of the kind not advanced.
define_same_index(m, name, type, kind0) ==
    LET kind == upper(kind0) IN
    IF ~Ok(m) THEN m
    ELSE IF kind \notin ALL_KINDS THEN Raise(m, "ValueError")
    ELSE LET entry == Symbol(type, kind, m.counters[kind])
         IN  IF kind \in CLASS_KINDS
             THEN [m EXCEPT !.class_scope = Put(@, name, entry)]
             ELSE [m EXCEPT !.sub_scope = Put(@, name, entry)]

define(m, name, type, kind0) ==
    LET kind == upper(kind0) IN
    IF ~Ok(m) THEN m
    ELSE IF kind \notin ALL_KINDS THEN Raise(m, "ValueError")
    ELSE LET index == m.counters[kind]
             entry == Symbol(type, kind, index)
             m1 == [m EXCEPT !.counters = [@ EXCEPT ![kind] = @ + 1]]
         IN  IF kind \in CLASS_KINDS
             THEN [m1 EXCEPT !.class_scope = Put(@, name, entry)]
             ELSE [m1 EXCEPT !.sub_scope = Put(@, name, entry)]

var_count(m, kind) ==
    IF upper(kind) \in DOMAIN m.counters THEN m.counters[upper(kind)] ELSE 0

\* _lookup returns the entry, or None; has_entry tells the two apart.
has_entry(m, name) ==
    name \in (DOMAIN m.sub_scope) \cup (DOMAIN m.class_scope)

\* _lookup, were the class scope searched first.
lookup_class_first(m, name) ==
    IF name \in DOMAIN m.class_scope THEN m.class_scope[name]
    ELSE m.sub_scope[name]

lookup(m, name) ==
    IF name \in DOMAIN m.sub_scope THEN m.sub_scope[name]
    ELSE m.class_scope[name]

kind_of(m, name) == IF has_entry(m, name) THEN lookup(m, name).kind ELSE None

type_of(m, name) == IF has_entry(m, name) THEN lookup(m, name).type ELSE None

index_of(m, name) == IF has_entry(m, name) THEN lookup(m, name).index ELSE None

-----------------------------------------------------------------------------
(* VMWriter                                                                *)

SEGMENT_MAP ==
    [s \in {"CONST", "ARG", "LOCAL", "STATIC", "THIS", "THAT", "POINTER",
            "TEMP", "constant", "argument", "local", "static", "this",
            "that", "pointer", "temp"} |->
        CASE s = "CONST" -> "constant"
          [] s = "ARG" -> "argument"
          [] s = "LOCAL" -> "local"
          [] s = "STATIC" -> "static"
          [] s = "THIS" -> "this"
          [] s = "THAT" -> "that"
          [] s = "POINTER" -> "pointer"
          [] s = "TEMP" -> "temp"
          [] OTHER -> s]

ARITHMETIC_ALLOWED ==
    {"add", "sub", "neg", "eq", "gt", "lt", "and", "or", "not",
     "shiftleft", "shiftright"}

\* str.lower() on the commands the writer is passed.
lower(s) ==
    CASE s = "ADD" -> "add"
      [] s = "Add" -> "add"
      [] s = "SHIFTLEFT" -> "shiftleft"
      [] s = "SHIFTRIGHT" -> "shiftright"
      [] s = "MUL" -> "mul"
      [] s = "SUB" -> "sub"
      [] s = "NEG" -> "neg"
      [] s = "EQ" -> "eq"
      [] s = "GT" -> "gt"
      [] s = "LT" -> "lt"
      [] s = "AND" -> "and"
      [] s = "OR" -> "or"
      [] s = "NOT" -> "not"
      [] OTHER -> s

NonEmptyPart(p) == p # ""

\* _write: the parts that are not "" joined into one line.
write(m, parts) ==
    IF ~Ok(m) THEN m
    ELSE [m EXCEPT !.out = Append(@, SelectSeq(parts, NonEmptyPart))]

RECURSIVE line_text(_)
\* " ".join(parts): the text of a line of the output stream.
line_text(parts) ==
    IF parts = <<>> THEN ""
    ELSE IF Len(parts) = 1 THEN parts[1]
    ELSE parts[1] \o " " \o line_text(Tail(parts))

write_push(m, segment, index) ==
    IF segment \in DOMAIN SEGMENT_MAP
    THEN write(m, <<"push", SEGMENT_MAP[segment], ToString(index)>>)
    ELSE Raise(m, "ValueError")

write_pop(m, segment, index) ==
    IF segment \in DOMAIN SEGMENT_MAP
    THEN write(m, <<"pop", SEGMENT_MAP[segment], ToString(index)>>)
    ELSE Raise(m, "ValueError")

\* write_arithmetic, were the command written without the check.
write_arithmetic_unchecked(m, command) == write(m, <<lower(command)>>)

write_arithmetic(m, command) ==
    IF lower(command) \in ARITHMETIC_ALLOWED
    THEN write(m, <<lower(command)>>)
    ELSE Raise(m, "ValueError")

write_label(m, label) == write(m, <<"label", label>>)

write_goto(m, label) == write(m, <<"goto", label>>)

write_if(m, label) == write(m, <<"if-goto", label>>)

write_call(m, name, n_args) == write(m, <<"call", name, ToString(n_args)>>)

\* A blank line, then the function directive.
write_function(m, name, n_locals) ==
    write(IF Ok(m) THEN [m EXCEPT !.out = Append(@, <<>>)] ELSE m,
          <<"function", name, ToString(n_locals)>>)

write_return(m) == write(m, <<"return">>)

-----------------------------------------------------------------------------
(* CompilationEngine: XML output helpers                                   *)

RECURSIVE Indent(_)
\* "  " * n
Indent(n) == IF n = 0 THEN "" ELSE "  " \o Indent(n - 1)

\* A line of XML is written to the output stream whole, indentation included.
xml_write_line(m, text) ==
    IF ~Ok(m) THEN m
    ELSE [m EXCEPT !.out = Append(@, <<Indent(m.indent_count) \o text>>)]

xml_open(m, tag) ==
    IF ~Ok(m) THEN m
    ELSE [xml_write_line(m, "<" \o tag \o ">") EXCEPT !.indent_count = @ + 1]

xml_close(m, tag) ==
    IF ~Ok(m) THEN m
    ELSE [xml_write_line(m, "</" \o tag \o ">") EXCEPT !.indent_count = @ - 1]

XML_TAG ==
    [t \in {"KEYWORD", "SYMBOL", "IDENTIFIER", "INT_CONST", "STRING_CONST"} |->
        CASE t = "KEYWORD" -> "keyword"
          [] t = "SYMBOL" -> "symbol"
          [] t = "IDENTIFIER" -> "identifier"
          [] t = "INT_CONST" -> "integerConstant"
          [] t = "STRING_CONST" -> "stringConstant"]

xml_write_token(m, ttype, value) ==
    xml_write_line(m, "<" \o XML_TAG[ttype] \o "> " \o value
                      \o " </" \o XML_TAG[ttype] \o ">")

-----------------------------------------------------------------------------
(* CompilationEngine: token helpers                                        *)

expect_type(m, ttype) ==
    IF ~Ok(m) THEN m
    ELSE IF m.current_token = None \/ token_type(m.current_token) # ttype
    THEN Raise(m, "JackSyntaxError")
    ELSE LET value == get_token_string(m.current_token)
             m1 == IF m.xml_mode THEN xml_write_token(m, ttype, value) ELSE m
         IN  advance([m1 EXCEPT
                 !.ret = value,
                 !.matched = Append(@, <<"type", ttype, m.current_token>>)])

expect_value(m, value) ==
    IF ~Ok(m) THEN m
    ELSE IF m.current_token = None
            \/ get_token_string(m.current_token) # value
    THEN Raise(m, "JackSyntaxError")
    ELSE LET m1 == IF m.xml_mode
                   THEN xml_write_token(m, token_type(m.current_token), value)
                   ELSE m
         IN  advance([m1 EXCEPT
                 !.matched = Append(@, <<"value", value, m.current_token>>)])

is_keyword(m, keyword) ==
    /\ token_type(m.current_token) = "KEYWORD"
    /\ get_token_string(m.current_token) = keyword

is_symbol(m, symbol) ==
    /\ token_type(m.current_token) = "SYMBOL"
    /\ get_token_string(m.current_token) = symbol

is_class_var_dec(m) == is_keyword(m, "static") \/ is_keyword(m, "field")

is_subroutine(m) ==
    \/ is_keyword(m, "constructor")
    \/ is_keyword(m, "function")
    \/ is_keyword(m, "method")

is_var_dec(m) == is_keyword(m, "var")

is_integer_constant(m) == token_type(m.current_token) = "INT_CONST"

is_string_constant(m) == token_type(m.current_token) = "STRING_CONST"

is_identifier(m) == token_type(m.current_token) = "IDENTIFIER"

is_keyword_constant(m) ==
    /\ token_type(m.current_token) = "KEYWORD"
    /\ get_token_string(m.current_token) \in {"true", "false", "null", "this"}

is_unary_op(m) ==
    /\ token_type(m.current_token) = "SYMBOL"
    /\ get_token_string(m.current_token) \in {"-", "~"}

is_op(m) ==
    /\ token_type(m.current_token) = "SYMBOL"
    /\ get_token_string(m.current_token) \in
          {"+", "-", "*", "/", "&", "|", "<", ">", "=", "<<", ">>"}

read_type(m, allow_void) ==
    IF ~Ok(m) THEN m
    ELSE IF is_keyword(m, "void") /\ allow_void THEN expect_type(m, "KEYWORD")
    ELSE IF is_keyword(m, "int") \/ is_keyword(m, "char")
            \/ is_keyword(m, "boolean")
    THEN expect_type(m, "KEYWORD")
    ELSE expect_type(m, "IDENTIFIER")

-----------------------------------------------------------------------------
(* CompilationEngine: code generation helpers                              *)

KIND_TO_SEGMENT ==
    [k \in ALL_KINDS |->
        CASE k = "STATIC" -> "STATIC"
          [] k = "FIELD" -> "THIS"
          [] k = "ARG" -> "ARG"
          [] k = "VAR" -> "LOCAL"]

\* _kind_to_segment is a dict lookup: a kind that is no key is a KeyError.
push_var(m, name) ==
    IF ~Ok(m) THEN m
    ELSE IF kind_of(m, name) \notin DOMAIN KIND_TO_SEGMENT
    THEN Raise(m, "KeyError")
    ELSE write_push(m, KIND_TO_SEGMENT[kind_of(m, name)], index_of(m, name))

pop_var(m, name) ==
    IF ~Ok(m) THEN m
    ELSE IF kind_of(m, name) \notin DOMAIN KIND_TO_SEGMENT
    THEN Raise(m, "KeyError")
    ELSE write_pop(m, KIND_TO_SEGMENT[kind_of(m, name)], index_of(m, name))

\* The operator table, were the binary minus given the command of the unary.
OP_MAPPING_minus_as_neg ==
    [op \in {"+", "-", "*", "/", "&", "|", "<", ">", "=", "<<", ">>"} |->
        CASE op = "+" -> <<"add">>
          [] op = "-" -> <<"neg">>
          [] op = "*" -> <<"call", "Math.multiply", 2>>
          [] op = "/" -> <<"call", "Math.divide", 2>>
          [] op = "&" -> <<"and">>
          [] op = "|" -> <<"or">>
          [] op = "<" -> <<"lt">>
          [] op = ">" -> <<"gt">>
          [] op = "=" -> <<"eq">>
          [] op = "<<" -> <<"shiftleft">>
          [] op = ">>" -> <<"shiftright">>]

OP_MAPPING ==
    [op \in {"+", "-", "*", "/", "&", "|", "<", ">", "=", "<<", ">>"} |->
        CASE op = "+" -> <<"add">>
          [] op = "-" -> <<"sub">>
          [] op = "*" -> <<"call", "Math.multiply", 2>>
          [] op = "/" -> <<"call", "Math.divide", 2>>
          [] op = "&" -> <<"and">>
          [] op = "|" -> <<"or">>
          [] op = "<" -> <<"lt">>
          [] op = ">" -> <<"gt">>
          [] op = "=" -> <<"eq">>
          [] op = "<<" -> <<"shiftleft">>
          [] op = ">>" -> <<"shiftright">>]

\* CompilationEngine._write_arithmetic
engine_write_arithmetic(m, op) ==
    IF ~Ok(m) THEN m
    ELSE IF op \notin DOMAIN OP_MAPPING THEN Raise(m, "KeyError")
    ELSE IF Len(OP_MAPPING[op]) = 3
    THEN write_call(m, OP_MAPPING[op][2], OP_MAPPING[op][3])
    ELSE write_arithmetic(m, OP_MAPPING[op][1])

\* _new_label, were the counter to restart with every label.
new_label_restart(m, base) ==
    IF ~Ok(m) THEN m
    ELSE [m EXCEPT !.ret = base \o ToString(m.label_counter),
                   !.label_counter = 0]

\* _new_label: the label is in m.ret, the counter is advanced.
new_label(m, base) ==
    IF ~Ok(m) THEN m
    ELSE [m EXCEPT !.ret = base \o ToString(m.label_counter),
                   !.label_counter = @ + 1]

-----------------------------------------------------------------------------
(* The engine's control: frames, calls and returns                         *)

\* A pending call: k names the code that runs when the callee returns, the
\* other fields are the caller's locals (and marks: positions in out and in
\* matched, kept for the history variables).
Frame(k, name, aux, labels, n, marks) ==
    [k |-> k, name |-> name, aux |-> aux, labels |-> labels, n |-> n,
     marks |-> marks]

Push(s, f) == <<f>> \o s

Top(s) == Head(s)

Pop(s) == Tail(s)

\* compile_expression starts with a call of compile_term; aux is the
\* operator whose VM command is still to be written ("" before the first).
\* The frame's marks are the lengths of the output and of the matched tokens
\* when the expression starts, then, for each term, the length of the
\* output after the term and after the command that follows it.
CallExpression(m, s) ==
    Push(s, Frame("expression", "", "", <<>>, 0,
                  <<Len(m.out), Len(m.matched)>>))

M ==
    [tokens |-> tokens, current_token |-> current_token,
     class_scope |-> class_scope, sub_scope |-> sub_scope,
     counters |-> counters, class_name |-> class_name,
     label_counter |-> label_counter, out |-> out, ret |-> ret, err |-> err,
     matched |-> matched, sub_log |-> sub_log, let_log |-> let_log,
     call_log |-> call_log, xml_mode |-> xml_mode,
     indent_count |-> indent_count, expr_log |-> expr_log]

\* The state after a step that ends at code point p with pending calls s.
\* An exception unwinds every pending call; a call nested deeper than the
\* interpreter allows is a RecursionError.
Commit(m, p, s) ==
    LET e == IF Ok(m) /\ Len(s) > RecursionLimit
             THEN "RecursionError" ELSE m.err
    IN  /\ tokens' = m.tokens
        /\ current_token' = m.current_token
        /\ class_scope' = m.class_scope
        /\ sub_scope' = m.sub_scope
        /\ counters' = m.counters
        /\ class_name' = m.class_name
        /\ label_counter' = m.label_counter
        /\ out' = m.out
        /\ ret' = m.ret
        /\ matched' = m.matched
        /\ sub_log' = m.sub_log
        /\ let_log' = m.let_log
        /\ call_log' = m.call_log
        /\ xml_mode' = m.xml_mode
        /\ indent_count' = m.indent_count
        /\ expr_log' = m.expr_log
        /\ err' = e
        /\ pc' = IF e = NoError THEN p ELSE "error"
        /\ stack' = IF e = NoError THEN s ELSE <<>>
        /\ UNCHANGED <<src, source, err_line, calls>>

Returned(k) == pc = "ret" /\ stack # <<>> /\ Top(stack).k = k

-----------------------------------------------------------------------------
(* CompilationEngine: class and subroutine declarations                    *)

\* __init__: prime the tokenizer, then compile the class.  The engine is in
\* XML mode when the tokenizer was advanced before.
EngineInit ==
    /\ pc = "init"
    /\ LET m0 == [M EXCEPT !.xml_mode = current_token # None]
           m1 == IF current_token = None /\ has_more_tokens(m0)
                 THEN advance(m0) ELSE m0
       IN  Commit(m1,
                  IF m1.current_token = None THEN "done"
                  ELSE IF m1.xml_mode THEN "compile_class_xml"
                  ELSE "compile_class",
                  stack)

compile_class ==
    /\ pc = "compile_class"
    /\ LET m1 == expect_value(M, "class")
           m2 == expect_type(m1, "IDENTIFIER")
           m3 == IF Ok(m2) THEN [m2 EXCEPT !.class_name = m2.ret] ELSE m2
           m4 == expect_value(m3, "{")
       IN  Commit(m4, "class_var_decs", stack)

RECURSIVE class_var_dec_rest(_, _, _)
class_var_dec_rest(m, var_type, kind) ==
    IF Ok(m) /\ is_symbol(m, ",")
    THEN LET m1 == expect_value(m, ",")
             m2 == expect_type(m1, "IDENTIFIER")
             m3 == define(m2, m2.ret, var_type, kind)
         IN  class_var_dec_rest(m3, var_type, kind)
    ELSE m

class_var_dec(m) ==
    LET m1 == expect_type(m, "KEYWORD")
        kind == upper(m1.ret)
        m2 == read_type(m1, FALSE)
        m3 == expect_type(m2, "IDENTIFIER")
        m4 == define(m3, m3.ret, m2.ret, kind)
        m5 == class_var_dec_rest(m4, m2.ret, kind)
    IN  expect_value(m5, ";")

compile_class_var_dec ==
    /\ pc = "class_var_decs"
    /\ is_class_var_dec(M)
    /\ Commit(class_var_dec(M), "class_var_decs", stack)

\* The while loop over the subroutines: after the loop over the class
\* variable declarations has ended, or after a subroutine.
AtSubroutines ==
    \/ pc = "class_var_decs" /\ ~is_class_var_dec(M)
    \/ pc = "subroutines"

RECURSIVE parameter_list_rest(_)
parameter_list_rest(m) ==
    IF Ok(m) /\ is_symbol(m, ",")
    THEN LET m1 == expect_value(m, ",")
             m2 == read_type(m1, FALSE)
             m3 == expect_type(m2, "IDENTIFIER")
             m4 == define(m3, m3.ret, m2.ret, "ARG")
         IN  parameter_list_rest(m4)
    ELSE m

compile_parameter_list(m) ==
    IF Ok(m) /\ ~is_symbol(m, ")")
    THEN LET m1 == read_type(m, FALSE)
             m2 == expect_type(m1, "IDENTIFIER")
             m3 == define(m2, m2.ret, m1.ret, "ARG")
         IN  parameter_list_rest(m3)
    ELSE m

RECURSIVE var_dec_rest(_, _)
var_dec_rest(m, var_type) ==
    IF Ok(m) /\ is_symbol(m, ",")
    THEN LET m1 == expect_value(m, ",")
             m2 == expect_type(m1, "IDENTIFIER")
             m3 == define(m2, m2.ret, var_type, "VAR")
         IN  var_dec_rest(m3, var_type)
    ELSE m

compile_var_dec(m) ==
    LET m1 == expect_value(m, "var")
        m2 == read_type(m1, FALSE)
        m3 == expect_type(m2, "IDENTIFIER")
        m4 == define(m3, m3.ret, m2.ret, "VAR")
        m5 == var_dec_rest(m4, m2.ret)
    IN  expect_value(m5, ";")

RECURSIVE var_decs(_)
var_decs(m) ==
    IF Ok(m) /\ is_var_dec(m) THEN var_decs(compile_var_dec(m)) ELSE m

\* The prologue, were the constructor to allocate a word for every class
\* variable, static ones included.
prologue_all_class_vars(m, subroutine_kind) ==
    IF subroutine_kind = "constructor"
    THEN write_pop(write_call(write_push(m, "CONST",
                                         var_count(m, "FIELD")
                                             + var_count(m, "STATIC")),
                              "Memory.alloc", 1),
                   "POINTER", 0)
    ELSE IF subroutine_kind = "method"
    THEN write_pop(write_push(m, "ARG", 0), "POINTER", 0)
    ELSE m

\* The lines that follow the function directive, by subroutine kind.
prologue(m, subroutine_kind) ==
    IF subroutine_kind = "constructor"
    THEN write_pop(write_call(write_push(m, "CONST", var_count(m, "FIELD")),
                              "Memory.alloc", 1),
                   "POINTER", 0)
    ELSE IF subroutine_kind = "method"
    THEN write_pop(write_push(m, "ARG", 0), "POINTER", 0)
    ELSE m

\* compile_subroutine up to its call of compile_statements.  The method
\* reads from the last operator up: each is a stretch of it, applied to the
\* machine the stretch before has left.
subroutine_head(m) ==
    LET Logged(subroutine_kind, name, m10, m12) ==
            IF Ok(m12)
            THEN [m12 EXCEPT !.sub_log = Append(@,
                    [kind |-> subroutine_kind, name |-> name,
                     t0 |-> Len(m.matched), t1 |-> Len(m10.matched),
                     p0 |-> Len(m.out), p1 |-> Len(m12.out)])]
            ELSE m12
        Directive(subroutine_kind, name, m10) ==
            Logged(subroutine_kind, name, m10,
                   prologue(write_function(m10, m10.class_name \o "." \o name,
                                           var_count(m10, "VAR")),
                            subroutine_kind))
        Signature(subroutine_kind, m5) ==
            Directive(subroutine_kind, m5.ret,
                      var_decs(expect_value(
                          expect_value(
                              compile_parameter_list(expect_value(m5, "(")),
                              ")"),
                          "{")))
        Scope(subroutine_kind, m2) ==
            Signature(subroutine_kind,
                      expect_type(
                          read_type(IF subroutine_kind = "method"
                                    THEN define(m2, "this", m2.class_name,
                                                "ARG")
                                    ELSE m2,
                                    TRUE),
                          "IDENTIFIER"))
        Kind(m1) == Scope(m1.ret, start_subroutine(m1))
    IN  Kind(expect_type(m, "KEYWORD"))

compile_subroutine ==
    /\ AtSubroutines
    /\ is_subroutine(M)
    /\ Commit(subroutine_head(M), "statements",
              Push(stack, Frame("subroutine_end", "", "", <<>>, 0, <<>>)))

compile_subroutine_end ==
    /\ Returned("subroutine_end")
    /\ Commit(expect_value(M, "}"), "subroutines", Pop(stack))

compile_class_end ==
    /\ AtSubroutines
    /\ ~is_subroutine(M)
    /\ Commit(expect_value(M, "}"), "done", stack)

-----------------------------------------------------------------------------
(* CompilationEngine: the XML compile routines                             *)

compile_return_xml(m) ==
    xml_close(expect_value(expect_value(xml_open(m, "returnStatement"),
                                        "return"), ";"),
              "returnStatement")

compile_subroutine_xml(m) ==
    LET m1 == expect_type(xml_open(m, "subroutineDec"), "KEYWORD")
        m2 == IF ~Ok(m1) THEN m1
              ELSE IF is_keyword(m1, "void") THEN expect_type(m1, "KEYWORD")
              ELSE read_type(m1, FALSE)
        m3 == expect_value(expect_type(m2, "IDENTIFIER"), "(")
        m4 == xml_close(xml_open(m3, "parameterList"), "parameterList")
        m5 == expect_value(xml_open(expect_value(m4, ")"), "subroutineBody"),
                           "{")
        m6 == xml_open(m5, "statements")
        m7 == IF Ok(m6) /\ is_keyword(m6, "return")
              THEN compile_return_xml(m6) ELSE m6
        m8 == expect_value(xml_close(m7, "statements"), "}")
    IN  xml_close(xml_close(m8, "subroutineBody"), "subroutineDec")

RECURSIVE subroutines_xml(_)
subroutines_xml(m) ==
    IF Ok(m) /\ is_subroutine(m)
    THEN subroutines_xml(compile_subroutine_xml(m)) ELSE m

\* _compile_class_xml: it calls nothing that calls it back, so it is one step.
class_xml(m) ==
    LET m1 == expect_value(xml_open(m, "class"), "class")
        m2 == expect_type(m1, "IDENTIFIER")
        m3 == IF Ok(m2) THEN [m2 EXCEPT !.class_name = m2.ret] ELSE m2
        m4 == subroutines_xml(expect_value(m3, "{"))
    IN  xml_close(expect_value(m4, "}"), "class")

compile_class_xml ==
    /\ pc = "compile_class_xml"
    /\ Commit(class_xml(M), "done", stack)

-----------------------------------------------------------------------------
(* CompilationEngine: subroutine calls                                     *)

\* _compile_subroutine_call_with_peek up to its call of
\* compile_expression_list; m.ret is then <<full_name, n_args>>.
subroutine_call_begin(m, first) ==
    IF ~Ok(m) THEN m
    ELSE IF is_symbol(m, ".")
    THEN LET m1 == expect_value(m, ".")
             m2 == expect_type(m1, "IDENTIFIER")
             sub_name == m2.ret
         IN  IF ~Ok(m2) THEN m2
             ELSE IF kind_of(m2, first) # None
             THEN LET m3 == push_var(m2, first)
                      obj_type == type_of(m3, first)
                      m4 == expect_value(m3, "(")
                  IN  IF Ok(m4)
                      THEN [m4 EXCEPT !.ret = <<obj_type \o "." \o sub_name, 1>>]
                      ELSE m4
             ELSE LET m4 == expect_value(m2, "(")
                  IN  IF Ok(m4)
                      THEN [m4 EXCEPT !.ret = <<first \o "." \o sub_name, 0>>]
                      ELSE m4
    ELSE LET m1 == write_push(m, "POINTER", 0)
             m2 == expect_value(m1, "(")
         IN  IF Ok(m2)
             THEN [m2 EXCEPT !.ret = <<m.class_name \o "." \o first, 1>>]
             ELSE m2

\* The end of a call, were the receiver left out of the argument count.
subroutine_call_finish_args_only(m, f, n) ==
    LET m1 == expect_value(m, ")")
        m2 == write_call(m1, f.name, n)
    IN  IF Ok(m2)
        THEN [m2 EXCEPT !.call_log = Append(@,
                [t0 |-> f.marks[3], t1 |-> Len(m1.matched),
                 p0 |-> f.marks[1], p1 |-> f.marks[2], p2 |-> Len(m2.out),
                 defined |-> f.labels # <<>>, sym |-> f.labels,
                 cls |-> m.class_name])]
        ELSE m2

\* The rest of _compile_subroutine_call_with_peek, once
\* compile_expression_list has returned n: f is the call's frame.
subroutine_call_finish(m, f, n) ==
    LET n_args == f.n + n
        m1 == expect_value(m, ")")
        m2 == write_call(m1, f.name, n_args)
    IN  IF Ok(m2)
        THEN [m2 EXCEPT !.call_log = Append(@,
                [t0 |-> f.marks[3], t1 |-> Len(m1.matched),
                 p0 |-> f.marks[1], p1 |-> f.marks[2], p2 |-> Len(m2.out),
                 defined |-> f.labels # <<>>, sym |-> f.labels,
                 cls |-> m.class_name])]
        ELSE m2

\* A call of _compile_subroutine_call_with_peek(first) that returns to the
\* frame on top of s.  With no argument compile_expression_list returns 0
\* at once; otherwise it calls compile_expression.
SubroutineCall(m, first, s) ==
    LET Begun(m1, f) ==
            IF ~Ok(m1) THEN Commit(m1, "error", s)
            ELSE IF ~is_symbol(m1, ")")
            THEN Commit(m1, "term",
                        CallExpression(m1, Push(Push(s, f),
                            Frame("expression_list", "", "", <<>>, 0, <<>>))))
            ELSE Commit(subroutine_call_finish(m1, f, 0), "ret", s)
        Call(m1) ==
            Begun(m1,
                  Frame("call_end",
                        IF Ok(m1) THEN m1.ret[1] ELSE "", first,
                        IF has_entry(m, first) THEN <<lookup(m, first)>>
                        ELSE <<>>,
                        IF Ok(m1) THEN m1.ret[2] ELSE 0,
                        <<Len(m.out), Len(m1.out), Len(m1.matched)>>))
    IN  Call(subroutine_call_begin(m, first))

compile_expression_list ==
    /\ Returned("expression_list")
    /\ LET n_args == Top(stack).n + 1
       IN  IF is_symbol(M, ",")
           THEN Commit(expect_value(M, ","), "term",
                       CallExpression(expect_value(M, ","), Push(Pop(stack),
                           Frame("expression_list", "", "", <<>>, n_args,
                                 <<>>))))
           ELSE Commit([M EXCEPT !.ret = n_args], "ret", Pop(stack))

subroutine_call_end ==
    /\ Returned("call_end")
    /\ Commit(subroutine_call_finish(M, Top(stack), ret), "ret", Pop(stack))

-----------------------------------------------------------------------------
(* CompilationEngine: statements                                           *)

is_statement(m) ==
    \/ is_keyword(m, "let")
    \/ is_keyword(m, "do")
    \/ is_keyword(m, "return")
    \/ is_keyword(m, "while")
    \/ is_keyword(m, "if")

\* compile_statements: no statement keyword, the loop breaks.
compile_statements_end ==
    /\ pc = "statements"
    /\ ~is_statement(M)
    /\ Commit(M, "ret", stack)

compile_do ==
    /\ pc = "statements"
    /\ is_keyword(M, "do")
    /\ LET m1 == expect_value(M, "do")
           m2 == IF Ok(m1) /\ ~is_identifier(m1)
                 THEN Raise(m1, "JackSyntaxError") ELSE m1
           m3 == expect_type(m2, "IDENTIFIER")
       IN  SubroutineCall(m3, m3.ret,
                          Push(stack, Frame("do_end", "", "", <<>>, 0, <<>>)))

compile_do_end ==
    /\ Returned("do_end")
    /\ Commit(expect_value(write_pop(M, "TEMP", 0), ";"), "statements",
              Pop(stack))

\* The end of an array assignment, were the address popped straight into
\* pointer 1 and the value stored without going through temp 0.
let_array_tail_direct(m) ==
    write_pop(write_pop(m, "POINTER", 1), "THAT", 0)

\* The lines that end an array assignment.
let_array_tail(m) ==
    write_pop(write_push(write_pop(write_pop(m, "TEMP", 0), "POINTER", 1),
                         "TEMP", 0),
              "THAT", 0)

compile_let ==
    /\ pc = "statements"
    /\ is_keyword(M, "let")
    /\ LET m1 == expect_value(M, "let")
           m2 == expect_type(m1, "IDENTIFIER")
           name == m2.ret
       IN  IF Ok(m2) /\ is_symbol(m2, "[")
           THEN Commit(expect_value(m2, "["), "term",
                       CallExpression(expect_value(m2, "["), Push(stack,
                           Frame("let_index", name, "", <<>>, 0,
                                 <<Len(out)>>))))
           ELSE Commit(expect_value(m2, "="), "term",
                       CallExpression(expect_value(m2, "="), Push(stack,
                           Frame("let_end", name, "", <<>>, 0, <<>>))))

\* compile_let after the index expression of an array target.
compile_let_index ==
    /\ Returned("let_index")
    /\ LET f == Top(stack)
           m1 == expect_value(M, "]")
           m2 == push_var(m1, f.name)
           m3 == write_arithmetic(m2, "add")
           m4 == expect_value(m3, "=")
       IN  Commit(m4, "term",
                  CallExpression(m4, Push(Pop(stack),
                      Frame("let_end", f.name, "", <<>>, 1,
                            <<f.marks[1], Len(out), Len(m4.out)>>))))

\* compile_let after the assigned expression; n = 1 is is_array.
compile_let_end ==
    /\ Returned("let_end")
    /\ LET f == Top(stack)
           m1 == expect_value(M, ";")
           m2 == IF f.n = 1 THEN let_array_tail(m1) ELSE pop_var(m1, f.name)
           m3 == IF Ok(m2) /\ f.n = 1
                 THEN [m2 EXCEPT !.let_log = Append(@,
                        [name |-> f.name, s0 |-> f.marks[1],
                         s1 |-> f.marks[2], s2 |-> f.marks[3],
                         s3 |-> Len(out), s4 |-> Len(m2.out),
                         sym |-> lookup(M, f.name)])]
                 ELSE m2
       IN  Commit(m3, "statements", Pop(stack))

compile_return ==
    /\ pc = "statements"
    /\ is_keyword(M, "return")
    /\ LET m1 == expect_value(M, "return")
       IN  IF Ok(m1) /\ ~is_symbol(m1, ";")
           THEN Commit(m1, "term",
                       CallExpression(m1, Push(stack,
                           Frame("return_end", "", "", <<>>, 0, <<>>))))
           ELSE Commit(write_return(expect_value(
                           write_push(m1, "CONST", 0), ";")),
                       "statements", stack)

compile_return_end ==
    /\ Returned("return_end")
    /\ Commit(write_return(expect_value(M, ";")), "statements", Pop(stack))

compile_while ==
    /\ pc = "statements"
    /\ is_keyword(M, "while")
    /\ LET m1 == expect_value(M, "while")
           m2 == new_label(m1, "WHILE_EXP")
           start_label == m2.ret
           m3 == new_label(m2, "WHILE_END")
           end_label == m3.ret
           m4 == write_label(m3, start_label)
           m5 == expect_value(m4, "(")
       IN  Commit(m5, "term",
                  CallExpression(m5, Push(stack,
                      Frame("while_cond", "", "", <<start_label, end_label>>,
                            0, <<>>))))

\* compile_while after the condition.
compile_while_body ==
    /\ Returned("while_cond")
    /\ LET f == Top(stack)
           m1 == expect_value(M, ")")
           m2 == write_arithmetic(m1, "not")
           m3 == write_if(m2, f.labels[2])
           m4 == expect_value(m3, "{")
       IN  Commit(m4, "statements",
                  Push(Pop(stack),
                       Frame("while_end", "", "", f.labels, 0, <<>>)))

\* compile_while after the body.
compile_while_end ==
    /\ Returned("while_end")
    /\ LET f == Top(stack)
           m1 == expect_value(M, "}")
           m2 == write_goto(m1, f.labels[1])
           m3 == write_label(m2, f.labels[2])
       IN  Commit(m3, "statements", Pop(stack))

compile_if ==
    /\ pc = "statements"
    /\ is_keyword(M, "if")
    /\ LET m1 == expect_value(M, "if")
           m2 == new_label(m1, "IF_TRUE")
           true_label == m2.ret
           m3 == new_label(m2, "IF_FALSE")
           false_label == m3.ret
           m4 == new_label(m3, "IF_END")
           end_label == m4.ret
           m5 == expect_value(m4, "(")
       IN  Commit(m5, "term",
                  CallExpression(m5, Push(stack,
                      Frame("if_cond", "", "",
                            <<true_label, false_label, end_label>>, 0,
                            <<>>))))

\* compile_if after the condition.
compile_if_then ==
    /\ Returned("if_cond")
    /\ LET f == Top(stack)
           m1 == expect_value(M, ")")
           m2 == write_if(m1, f.labels[1])
           m3 == write_goto(m2, f.labels[2])
           m4 == write_label(m3, f.labels[1])
           m5 == expect_value(m4, "{")
       IN  Commit(m5, "statements",
                  Push(Pop(stack),
                       Frame("if_then", "", "", f.labels, 0, <<>>)))

\* compile_if after the statements of the then branch.
compile_if_else ==
    /\ Returned("if_then")
    /\ LET f == Top(stack)
           m1 == expect_value(M, "}")
       IN  IF Ok(m1) /\ is_keyword(m1, "else")
           THEN LET m2 == write_goto(m1, f.labels[3])
                    m3 == write_label(m2, f.labels[2])
                    m4 == expect_value(m3, "else")
                    m5 == expect_value(m4, "{")
                IN  Commit(m5, "statements",
                           Push(Pop(stack),
                                Frame("if_end", "", "", f.labels, 0, <<>>)))
           ELSE Commit(write_label(m1, f.labels[2]), "statements",
                       Pop(stack))

\* compile_if after the statements of the else branch.
compile_if_end ==
    /\ Returned("if_end")
    /\ LET f == Top(stack)
           m1 == expect_value(M, "}")
       IN  Commit(write_label(m1, f.labels[3]), "statements", Pop(stack))

-----------------------------------------------------------------------------
(* CompilationEngine: expressions                                          *)

\* compile_expression after a term: write the pending operator's command,
\* then either read the next operator and call compile_term, or return.
compile_expression ==
    /\ Returned("expression")
    /\ LET f == Top(stack)
           Ended(m1, marks) ==
               [m1 EXCEPT !.expr_log = Append(@,
                   [p0 |-> marks[1], t0 |-> marks[2], t1 |-> Len(m1.matched),
                    ends |-> SubSeq(marks, 3, Len(marks))])]
           Read(m2, marks) ==
               Commit(m2, "term",
                      Push(Pop(stack),
                           Frame("expression", "", m2.ret, <<>>, 0, marks)))
           Written(m1, marks) ==
               IF Ok(m1) /\ is_op(m1)
               THEN Read(expect_type(m1, "SYMBOL"), marks)
               ELSE Commit(Ended(m1, marks), "ret", Pop(stack))
           Term(m1) == Written(m1, f.marks \o <<Len(out), Len(m1.out)>>)
       IN  Term(IF f.aux = "" THEN M ELSE engine_write_arithmetic(M, f.aux))

\* ord() of the characters of the vocabulary's string constants.
ord(ch) ==
    CASE ch = "{" -> 123
      [] ch = "}" -> 125
      [] ch = "(" -> 40
      [] ch = ")" -> 41
      [] ch = "[" -> 91
      [] ch = "]" -> 93
      [] ch = "." -> 46
      [] ch = "," -> 44
      [] ch = ";" -> 59
      [] ch = "=" -> 61
      [] ch = "H" -> 72
      [] ch = "d" -> 100
      [] ch = "e" -> 101
      [] ch = "f" -> 102
      [] ch = "i" -> 105
      [] ch = "l" -> 108
      [] ch = "o" -> 111
      [] ch = "t" -> 116

\* The characters of a string constant's text.
chars(text) == CHOOSE cs \in StringTexts : Join(cs) = text

RECURSIVE append_chars(_, _)
append_chars(m, cs) ==
    IF cs = <<>> THEN m
    ELSE append_chars(write_call(write_push(m, "CONST", ord(Head(cs))),
                                 "String.appendChar", 2),
                      Tail(cs))

keyword_constant(m, kw) ==
    IF kw \in {"false", "null"} THEN write_push(m, "CONST", 0)
    ELSE IF kw = "true"
    THEN write_arithmetic(write_push(m, "CONST", 0), "not")
    ELSE IF kw = "this" THEN write_push(m, "POINTER", 0)
    ELSE m

compile_term ==
    /\ pc = "term"
    /\ IF is_integer_constant(M)
       THEN LET m1 == expect_type(M, "INT_CONST")
            IN  Commit(write_push(m1, "CONST", int_val(m1.ret)), "ret", stack)
       ELSE IF is_string_constant(M)
       THEN LET m1 == expect_type(M, "STRING_CONST")
                text == m1.ret
                m2 == write_push(m1, "CONST", Len(chars(text)))
                m3 == write_call(m2, "String.new", 1)
            IN  Commit(append_chars(m3, chars(text)), "ret", stack)
       ELSE IF is_keyword_constant(M)
       THEN LET m1 == expect_type(M, "KEYWORD")
            IN  Commit(keyword_constant(m1, m1.ret), "ret", stack)
       ELSE IF is_symbol(M, "(")
       THEN Commit(expect_value(M, "("), "term",
                   CallExpression(expect_value(M, "("), Push(stack,
                       Frame("term_paren", "", "", <<>>, 0, <<>>))))
       ELSE IF is_unary_op(M)
       THEN LET m1 == expect_type(M, "SYMBOL")
            IN  Commit(m1, "term",
                       Push(stack,
                            Frame("term_unary", "", m1.ret, <<>>, 0, <<>>)))
       ELSE IF is_identifier(M)
       THEN LET m1 == expect_type(M, "IDENTIFIER")
                ident == m1.ret
            IN  IF is_symbol(m1, "[")
                THEN Commit(expect_value(m1, "["), "term",
                            CallExpression(expect_value(m1, "["), Push(stack,
                                Frame("term_array", ident, "", <<>>, 0,
                                      <<>>))))
                ELSE IF is_symbol(m1, "(") \/ is_symbol(m1, ".")
                THEN SubroutineCall(m1, ident, stack)
                ELSE Commit(push_var(m1, ident), "ret", stack)
       ELSE Commit(Raise(M, "JackSyntaxError"), "ret", stack)

\* compile_term after the expression in parentheses.
compile_term_paren ==
    /\ Returned("term_paren")
    /\ Commit(expect_value(M, ")"), "ret", Pop(stack))

\* compile_term after the operand of a unary operator.
compile_term_unary ==
    /\ Returned("term_unary")
    /\ Commit(write_arithmetic(M, IF Top(stack).aux = "-" THEN "neg"
                                  ELSE "not"),
              "ret", Pop(stack))

\* compile_term after the index expression of an array read.
compile_term_array ==
    /\ Returned("term_array")
    /\ LET m1 == expect_value(M, "]")
           m2 == push_var(m1, Top(stack).name)
           m3 == write_arithmetic(m2, "add")
           m4 == write_pop(m3, "POINTER", 1)
       IN  Commit(write_push(m4, "THAT", 0), "ret", Pop(stack))

-----------------------------------------------------------------------------
(* The token lists compiled: classes built from bounded sets of            *)
(* declarations, statements and expressions, and malformed lists (every    *)
(* proper prefix of a class, every class with one token replaced).         *)

MaxParams == 2      \* parameters of a generated subroutine
MaxVars == 2        \* local variables of a generated subroutine
MaxArgs == 2        \* argument expressions of a generated call

RECURSIVE Names(_, _, _)
\* n names prefix<i>, prefix<i+1>, ... separated by commas
Names(prefix, i, n) ==
    IF n = 0 THEN <<>>
    ELSE IF n = 1 THEN <<prefix \o ToString(i)>>
    ELSE <<prefix \o ToString(i), ",">> \o Names(prefix, i + 1, n - 1)

ParamType(k) == IF k % 2 = 0 THEN "int" ELSE "A"

RECURSIVE ParamList(_)
\* int p0 , A p1 , int p2 ...
ParamList(n) ==
    IF n = 0 THEN <<>>
    ELSE (IF n > 1 THEN ParamList(n - 1) \o <<",">> ELSE <<>>)
         \o <<ParamType(n - 1), "p" \o ToString(n - 1)>>

RECURSIVE Compositions(_)
\* the ways to split n names into var declarations
Compositions(n) ==
    IF n = 0 THEN {<<>>}
    ELSE UNION {{<<k>> \o c : c \in Compositions(n - k)} : k \in 1..n}

RECURSIVE VarDecs(_, _)
\* var int v<i> , ... ; var int ... ;   one declaration per entry of c
VarDecs(c, i) ==
    IF c = <<>> THEN <<>>
    ELSE <<"var", "int">> \o Names("v", i, Head(c)) \o <<";">>
         \o VarDecs(Tail(c), i + Head(c))

Kinds == {"constructor", "function", "method"}

Sub(kind, idx, params, body) ==
    <<kind, IF kind = "constructor" THEN "A" ELSE "void",
      "f" \o ToString(idx), "(">> \o params \o <<")", "{">> \o body \o <<"}">>

ClassOf(decs, subs) == <<"class", "A", "{">> \o decs \o subs \o <<"}">>

\* Parameter lists, one of them naming a parameter twice.
ParamOptions ==
    {ParamList(n) : n \in 0..MaxParams} \cup {<<"int", "p0", ",", "A", "p0">>}

\* Local declarations, one redeclaring a parameter and one naming a local
\* twice.
VarOptions ==
    {VarDecs(c, 0) : c \in UNION {Compositions(n) : n \in 0..MaxVars}}
    \cup {<<"var", "int", "p0", ";">>, <<"var", "int", "v0", ",", "v0", ";">>}

DeclBodies ==
    {<<>>} \cup {<<"return", "p" \o ToString(k), ";">> : k \in 0..(MaxParams - 1)}

DeclSubs(idx) ==
    {Sub(kind, idx, ps, vs \o b) :
        kind \in Kinds, ps \in ParamOptions, vs \in VarOptions,
        b \in DeclBodies}

FirstSubs ==
    {Sub(kind, 0, ps, vs) :
        kind \in Kinds, ps \in {<<>>, ParamList(MaxParams)},
        vs \in {<<>>, VarDecs(<<MaxVars>>, 0)}}

ClassVarDecs ==
    {<<>>,
     <<"field", "int", "x", ";">>,
     <<"static", "int", "x", ";">>,
     <<"field", "int", "x", ",", "y", ";", "static", "A", "z", ";">>,
     <<"static", "int", "s", ";", "field", "A", "x", ";",
       "field", "int", "y", ",", "z", ";">>}

DeclInputs ==
    {ClassOf(cv, sub) : cv \in ClassVarDecs, sub \in DeclSubs(0)}
    \cup {ClassOf(<<"field", "int", "x", ";">>, s0 \o s1) :
            s0 \in FirstSubs, s1 \in DeclSubs(1)}

\* Statements are compiled in a method with a field q, a static s, a
\* parameter p and a local v; u and Sys are defined nowhere.
StmtHead ==
    <<"class", "A", "{", "field", "A", "q", ";", "static", "int", "s", ";",
      "method", "void", "f", "(", "A", "p", ")", "{", "var", "int", "v", ";">>

StmtClass(body) == StmtHead \o body \o <<"}", "}">>

Atoms == {<<"1">>, <<"v">>, <<"q">>, <<"this">>, <<"\"Hi\"">>, <<"u">>}

Simple == {<<"1">>, <<"v">>}

ArrayReads ==
    {<<a, "[">> \o e \o <<"]">> : a \in {"s", "p", "u"}, e \in Simple}

ArgExprs ==
    {<<"1">>, <<"s", "[", "v", "]">>, <<"g", "(", "1", ",", "v", ")">>,
     <<"(", "v", ")">>}

RECURSIVE ArgLists(_)
\* the lists of n argument expressions
ArgLists(n) ==
    IF n = 0 THEN {<<>>}
    ELSE IF n = 1 THEN ArgExprs
    ELSE {l \o <<",">> \o e : l \in ArgLists(n - 1), e \in ArgExprs}

CallHeads ==
    {<<"g">>, <<"q", ".", "g">>, <<"p", ".", "g">>, <<"Sys", ".", "g">>}

Calls ==
    {h \o <<"(">> \o l \o <<")">> :
        h \in CallHeads, l \in UNION {ArgLists(n) : n \in 0..MaxArgs}}

Exprs ==
    Atoms \cup ArrayReads
    \cup {<<o>> \o e : o \in {"-", "~"}, e \in Simple}
    \cup {<<"(">> \o e \o <<")">> : e \in Simple}
    \cup {e \o <<o>> \o f : e \in Simple, o \in {"+", "<", "*", "-"},
                            f \in {<<"1">>, <<"s", "[", "1", "]">>}}
    \cup {<<"1", "+", "v", "*", "1">>, <<"-", "(", "1", "-", "v", ")">>,
          <<"s", "[", "p", "[", "1", "]", "]">>,
          <<"q", ".", "g", "(", "1", ")">>, <<"g", "(", ")", "/", "1">>}

AssignedExprs ==
    {<<"1">>, <<"p", "[", "v", "]">>, <<"s", "[", "p", "[", "1", "]", "]">>,
     <<"q", ".", "g", "(", "1", ")">>, <<"-", "1">>,
     <<"1", "+", "s", "[", "v", "]">>}

IndexExprs == {<<"1">>, <<"v">>, <<"s", "[", "1", "]">>, <<"1", "+", "v">>}

Statements ==
    {<<"let", x, "=">> \o e \o <<";">> : x \in {"v", "s", "u"}, e \in Exprs}
    \cup {<<"let", a, "[">> \o i \o <<"]", "=">> \o e \o <<";">> :
            a \in {"s", "p", "v", "q", "u"}, i \in IndexExprs,
            e \in AssignedExprs}
    \cup {<<"do">> \o c \o <<";">> : c \in Calls}
    \cup {<<"return", ";">>}
    \cup {<<"return">> \o e \o <<";">> : e \in Exprs}

\* Control statements, nested to depth two and in sequences of two.
While(b) == <<"while", "(", "true", ")", "{">> \o b \o <<"}">>

If(b) == <<"if", "(", "true", ")", "{">> \o b \o <<"}">>

IfElse(b1, b2) == If(b1) \o <<"else", "{">> \o b2 \o <<"}">>

Control0 == {<<>>, <<"return", ";">>}

Control1 ==
    {While(b) : b \in Control0} \cup {If(b) : b \in Control0}
    \cup {IfElse(b1, b2) : b1 \in Control0, b2 \in Control0}

Control2 ==
    {While(b) : b \in Control1} \cup {If(b) : b \in Control1}
    \cup {IfElse(b1, b2) : b1 \in Control1, b2 \in Control0}
    \cup {IfElse(b1, b2) : b1 \in Control0, b2 \in Control1}

ControlBodies ==
    Control0 \cup Control1 \cup Control2
    \cup {a \o b : a \in Control1, b \in Control1}

ControlInputs ==
    {ClassOf(<<>>, Sub("function", 0, <<>>, b0) \o Sub("function", 1, <<>>, b1)) :
        b0 \in ControlBodies,
        b1 \in {<<>>, While(<<>>), IfElse(<<>>, <<"return", ";">>)}}

StmtInputs ==
    {StmtClass(st) : st \in Statements}
    \cup {StmtClass(While(st) \o <<"let", "v", "=", "1", ";">>) :
            st \in {<<"let", "s", "[", "v", "]", "=", "p", "[", "1", "]", ";">>,
                    <<"do", "g", "(", ")", ";">>,
                    <<"do", "u", ".", "g", "(", "v", ")", ";">>}}

\* Malformed lists: the proper prefixes of three classes, and the same
\* classes with one token replaced by another lexeme.
BaseClasses ==
    {StmtClass(<<"let", "s", "[", "v", "]", "=", "-", "q", ".", "g", "(",
                 "1", ",", "p", "[", "1", "]", ")", ";",
                 "do", "g", "(", ")", ";",
                 "return", "(", "1", "+", "~", "v", ")", "*", "7", ";">>),
     ClassOf(<<>>, Sub("function", 0, <<>>,
                       While(IfElse(<<"return", ";">>, <<>>)))),
     ClassOf(<<"field", "int", "x", ",", "y", ";">>,
             Sub("constructor", 0, ParamList(2),
                 VarDecs(<<2>>, 0)
                 \o <<"let", "x", "=", "\"Hi\"", ";", "return", "this", ";">>))}

Prefixes(ts) == {SubSeq(ts, 1, n) : n \in 0..(Len(ts) - 1)}

Replaced(ts, i, t) == [ts EXCEPT ![i] = t]

\* A string constant whose text is the lexeme t, if the vocabulary has one.
QuotedOf(t) == {Quote(Join(cs)) : cs \in {x \in StringTexts : Join(x) = t}}

Replacements ==
    SYMBOLS \cup {"class", "method", "var", "let", "do", "if", "else",
                  "while", "return", "this", "int", "void", "1", "zz",
                  "\"Hi\""}

Mutations(ts) ==
    UNION {{Replaced(ts, i, t) : t \in Replacements \cup QuotedOf(ts[i])} :
            i \in 1..Len(ts)}

MalformedInputs ==
    UNION {Prefixes(ts) : ts \in BaseClasses}
    \cup UNION {Mutations(ts) : ts \in BaseClasses}

\* The class the repository's tests compile.
TestClass ==
    <<"class", "Main", "{", "function", "void", "main", "(", ")", "{",
      "return", ";", "}", "}">>

Inputs ==
    DeclInputs \cup StmtInputs \cup ControlInputs \cup MalformedInputs
    \cup {TestClass}

-----------------------------------------------------------------------------
(* The specification                                                       *)

\* A tokenizer built on the token list ts, and the engine's attributes as
\* __init__ sets them before it looks at the tokenizer.
NewTokenizer(ts) ==
    [tokens |-> ts, current_token |-> None, err |-> NoError]

NewEngine(t) ==
    [tokens |-> t.tokens, current_token |-> t.current_token,
     class_scope |-> EmptyScope, sub_scope |-> EmptyScope,
     counters |-> [k \in ALL_KINDS |-> 0], class_name |-> "",
     label_counter |-> 0, out |-> <<>>, ret |-> None, err |-> NoError,
     matched |-> <<>>, sub_log |-> <<>>, let_log |-> <<>>,
     call_log |-> <<>>, xml_mode |-> t.current_token # None,
     indent_count |-> 0, expr_log |-> <<>>]

\* The engine is constructed on a tokenizer that was not advanced, or that
\* was advanced once.
Init ==
    /\ src \in Inputs
    /\ \E t \in {NewTokenizer(src), advance(NewTokenizer(src))} :
          /\ tokens = t.tokens
          /\ current_token = t.current_token
    /\ class_scope = EmptyScope
    /\ sub_scope = EmptyScope
    /\ counters = [k \in ALL_KINDS |-> 0]
    /\ class_name = ""
    /\ label_counter = 0
    /\ out = <<>>
    /\ pc = "init"
    /\ stack = <<>>
    /\ ret = None
    /\ err = NoError
    /\ matched = <<>>
    /\ sub_log = <<>>
    /\ let_log = <<>>
    /\ call_log = <<>>
    /\ xml_mode = FALSE
    /\ indent_count = 0
    /\ expr_log = <<>>
    /\ source = <<>>
    /\ err_line = 0
    /\ calls = <<>>

Next ==
    \/ EngineInit
    \/ compile_class
    \/ compile_class_xml
    \/ compile_class_var_dec
    \/ compile_subroutine
    \/ compile_subroutine_end
    \/ compile_class_end
    \/ compile_statements_end
    \/ compile_do
    \/ compile_do_end
    \/ compile_let
    \/ compile_let_index
    \/ compile_let_end
    \/ compile_return
    \/ compile_return_end
    \/ compile_while
    \/ compile_while_body
    \/ compile_while_end
    \/ compile_if
    \/ compile_if_then
    \/ compile_if_else
    \/ compile_if_end
    \/ compile_expression
    \/ compile_expression_list
    \/ subroutine_call_end
    \/ compile_term
    \/ compile_term_paren
    \/ compile_term_unary
    \/ compile_term_array

Spec == Init /\ [][Next]_vars

-----------------------------------------------------------------------------
(* What the claims are stated with: the tokens as the parse took them, and *)
(* what the source text declares, read off the tokens alone.               *)

\* The j-th token the parse consumed: the lexeme itself, and what the
\* engine took it for (the value it asked for, where it asked for one).
Raw(j) == matched[j][3]

Tok(j) == IF matched[j][1] = "value" THEN matched[j][2] ELSE matched[j][3]

\* The class name: the token after "class".
SourceClassName == Tok(2)

\* The subroutine of log entry L: its keyword, its name, and the tokens of
\* its header (from the keyword to the last local declaration).
SubKind(L) == Tok(L.t0 + 1)

SubName(L) == Tok(L.t0 + 3)

Header(L) == (L.t0 + 1)..L.t1

\* The closing parenthesis of the parameter list of L.
CloseParen(L) ==
    CHOOSE j \in Header(L) :
        /\ j > L.t0 + 4
        /\ Tok(j) = ")"
        /\ \A i \in (L.t0 + 5)..(j - 1) : Tok(i) # ")"

NumParams(L) == (CloseParen(L) - (L.t0 + 4)) \div 3

\* The position of the name of the k-th parameter (k from 0).
ParamAt(L, k) == L.t0 + 3 * k + 6

\* The positions of the names the var declarations of L declare: the name
\* after "var type", and every name after a comma.
VarNameAt(L) ==
    {j \in Header(L) :
        /\ j > CloseParen(L) + 1
        /\ Tok(j - 2) = "var" \/ Tok(j - 1) = ","}

NumVarNames(L) == Cardinality(VarNameAt(L))

\* The first token of the first subroutine, or the end of what was parsed.
ClassVarDecEnd == IF sub_log = <<>> THEN Len(matched) ELSE sub_log[1].t0

\* The positions of the names the class declares with "field": the name
\* after "field type" and every name after a comma of that declaration.
ClassDecAt == {j \in 4..ClassVarDecEnd : Raw(j) \in {"static", "field"}}

DecOf(j) == CHOOSE d \in ClassDecAt : d < j /\ \A e \in ClassDecAt : e < j => e <= d

FieldNameAt ==
    {j \in 6..ClassVarDecEnd :
        /\ \E d \in ClassDecAt : d < j
        /\ Raw(DecOf(j)) = "field"
        /\ j = DecOf(j) + 2 \/ Tok(j - 1) = ","}

NumFields == Cardinality(FieldNameAt)

\* The VM segment of each kind of variable (spec 4.3 and 4.4.2).
SegmentOfKind(kind) ==
    CASE kind = "STATIC" -> "static"
      [] kind = "FIELD" -> "this"
      [] kind = "ARG" -> "argument"
      [] kind = "VAR" -> "local"

\* The lines of the subroutine of the i-th log entry: up to the next
\* subroutine's first line, or to the end of the output.
SubLines(i) ==
    (sub_log[i].p0 + 1)..
        (IF i < Len(sub_log) THEN sub_log[i + 1].p0 ELSE Len(out))

IsFunctionLine(l) == l # <<>> /\ l[1] = "function"

-----------------------------------------------------------------------------
(* C1..C3: the function directive, the prologue, the parameters            *)

\* C1: every subroutine S of class C gets exactly one line "function C.S n",
\* it is the first instruction of S, and n is the number of names S declares
\* with var, whatever the subroutines before it declared.
C1_FunctionDirective ==
    \A i \in 1..Len(sub_log) :
        LET L == sub_log[i] IN
        /\ i = 1 => L.p0 = 0
        /\ out[L.p0 + 1] = <<>>
        /\ out[L.p0 + 2] =
              <<"function", SourceClassName \o "." \o SubName(L),
                ToString(NumVarNames(L))>>
        /\ \A j \in SubLines(i) : IsFunctionLine(out[j]) <=> j = L.p0 + 2

\* A class whose first subroutine declares more locals than its second.
C1_Witness ==
    /\ pc = "done"
    /\ err = NoError
    /\ Len(sub_log) = 2
    /\ NumVarNames(sub_log[1]) = 2
    /\ NumVarNames(sub_log[2]) = 1
    /\ out[sub_log[2].p0 + 2][3] = "1"

\* C2: after the function directive a constructor emits push constant F,
\* call Memory.alloc 1, pop pointer 0, with F the number of fields of the
\* class (statics not counted); a method emits push argument 0, pop
\* pointer 0; a function emits nothing before its statements.
C2_Prologue ==
    \A i \in 1..Len(sub_log) :
        LET L == sub_log[i]
            lines == SubSeq(out, L.p0 + 3, L.p1)
        IN  CASE SubKind(L) = "constructor" ->
                    lines = <<<<"push", "constant", ToString(NumFields)>>,
                              <<"call", "Memory.alloc", "1">>,
                              <<"pop", "pointer", "0">>>>
              [] SubKind(L) = "method" ->
                    lines = <<<<"push", "argument", "0">>,
                              <<"pop", "pointer", "0">>>>
              [] SubKind(L) = "function" -> lines = <<>>
              [] OTHER -> FALSE

\* A constructor of a class with three fields and one static.
C2_Witness ==
    /\ pc = "done"
    /\ err = NoError
    /\ Len(sub_log) = 1
    /\ SubKind(sub_log[1]) = "constructor"
    /\ NumFields = 3
    /\ Cardinality(ClassDecAt) = 3
    /\ out[3] = <<"push", "constant", "3">>

\* The last subroutine whose header was compiled: the one being compiled.
CurrentSub == sub_log[Len(sub_log)]

\* The names the header of L declares, by position.
DeclaredAt(L) ==
    {ParamAt(L, k) : k \in 0..(NumParams(L) - 1)} \cup VarNameAt(L)

\* The k-th parameter is visible: no later declaration of L has its name.
Visible(L, k) ==
    \A j \in DeclaredAt(L) : j > ParamAt(L, k) => Tok(j) # Tok(ParamAt(L, k))

ThisOffset(L) == IF SubKind(L) = "method" THEN 1 ELSE 0

-----------------------------------------------------------------------------
(* C4..C6: array assignment, labels, subroutine calls                      *)

\* The four lines that store the value of e at the address computed before.
ArrayStore ==
    <<<<"pop", "temp", "0">>, <<"pop", "pointer", "1">>,
      <<"push", "temp", "0">>, <<"pop", "that", "0">>>>

\* C4: let a[i] = e emits the code of i, push of a, add, the code of e, and
\* then pop temp 0, pop pointer 1, push temp 0, pop that 0: pointer 1 is
\* not popped for the statement before the code of e.
C4_ArrayLet ==
    \A i \in 1..Len(let_log) :
        LET r == let_log[i] IN
        /\ r.s0 < r.s1
        /\ r.s2 = r.s1 + 2
        /\ out[r.s1 + 1] =
              <<"push", SegmentOfKind(r.sym.kind), ToString(r.sym.index)>>
        /\ out[r.s1 + 2] = <<"add">>
        /\ r.s2 < r.s3
        /\ r.s4 = r.s3 + 4
        /\ SubSeq(out, r.s3 + 1, r.s4) = ArrayStore

\* An array assignment whose right-hand side reads an array itself.
C4_Witness ==
    /\ pc = "done"
    /\ err = NoError
    /\ \E i \in 1..Len(let_log) :
          /\ \E j \in (let_log[i].s2 + 1)..let_log[i].s3 :
                out[j] = <<"pop", "pointer", "1">>
          /\ let_log[i].sym.kind = "STATIC"
          /\ out[let_log[i].s4] = <<"pop", "that", "0">>

\* The lines that define a label and the lines that jump to one.
LabelLines == {j \in 1..Len(out) : out[j] # <<>> /\ out[j][1] = "label"}

JumpLines ==
    {j \in 1..Len(out) : out[j] # <<>> /\ out[j][1] \in {"goto", "if-goto"}}

\* The function directive whose body holds line j.
FunctionOf(j) ==
    CHOOSE f \in 1..j :
        /\ IsFunctionLine(out[f])
        /\ \A g \in (f + 1)..j : ~IsFunctionLine(out[g])

\* C5: in the output of a class compiled without error every label a goto
\* or if-goto names is defined by exactly one label line, in the same
\* function body, and no two label lines carry the same label.
C5_Labels ==
    (pc = "done" /\ err = NoError) =>
        /\ \A j \in JumpLines :
              /\ Cardinality({d \in LabelLines : out[d][2] = out[j][2]}) = 1
              /\ \A d \in LabelLines :
                    out[d][2] = out[j][2] => FunctionOf(d) = FunctionOf(j)
        /\ \A d, e \in LabelLines : out[d][2] = out[e][2] => d = e

\* Two function bodies with labels, the first with an if inside a while,
\* the second with a while whose labels continue the numbering.
C5_Witness ==
    /\ pc = "done"
    /\ err = NoError
    /\ Cardinality(LabelLines) = 7
    /\ Cardinality({FunctionOf(d) : d \in LabelLines}) = 2
    /\ \E j \in JumpLines : out[j] = <<"if-goto", "IF_TRUE2">>
    /\ \E j \in JumpLines : out[j] = <<"goto", "WHILE_EXP5">>

\* The nesting depth at token j of the argument list that opens at t0.
Depth(t0, j) ==
    Cardinality({i \in (t0 + 1)..(j - 1) : Tok(i) \in {"(", "["}})
    - Cardinality({i \in (t0 + 1)..(j - 1) : Tok(i) \in {")", "]"}})

\* The number of argument expressions between "(" at t0 and ")" at t1.
NumArgs(t0, t1) ==
    IF t1 = t0 + 1 THEN 0
    ELSE 1 + Cardinality({j \in (t0 + 1)..(t1 - 1) :
                            Tok(j) = "," /\ Depth(t0, j) = 0})

\* The call is written Q.s(...), not f(...).
Dotted(r) == r.t0 > 3 /\ Tok(r.t0 - 2) = "."

\* C6: f(e1..ek) emits push pointer 0, the arguments, call C.f k+1;
\* Q.s(e1..ek) with Q in the symbol table emits push of Q, the arguments,
\* call type_of(Q).s k+1; with Q not in the table it emits the arguments
\* and call Q.s k, with no push before them.
C6_Calls ==
    \A i \in 1..Len(call_log) :
        LET r == call_log[i]
            k == NumArgs(r.t0, r.t1)
            s == Tok(r.t0 - 1)
        IN  /\ r.p1 < r.p2
            /\ k > 0 => r.p1 < r.p2 - 1
            /\ IF ~Dotted(r)
               THEN /\ r.p1 = r.p0 + 1
                    /\ out[r.p1] = <<"push", "pointer", "0">>
                    /\ out[r.p2] =
                          <<"call", SourceClassName \o "." \o s,
                            ToString(k + 1)>>
               ELSE IF r.defined
               THEN /\ r.p1 = r.p0 + 1
                    /\ out[r.p1] =
                          <<"push", SegmentOfKind(r.sym[1].kind),
                            ToString(r.sym[1].index)>>
                    /\ out[r.p2] =
                          <<"call", r.sym[1].type \o "." \o s,
                            ToString(k + 1)>>
               ELSE /\ r.p1 = r.p0
                    /\ out[r.p2] =
                          <<"call", Tok(r.t0 - 3) \o "." \o s, ToString(k)>>

\* A call on a field with two arguments, one of them a call itself.
C6_Witness ==
    /\ pc = "done"
    /\ err = NoError
    /\ \E i \in 1..Len(call_log) :
          LET r == call_log[i] IN
          /\ Dotted(r)
          /\ r.defined
          /\ r.sym[1].kind = "FIELD"
          /\ NumArgs(r.t0, r.t1) = 2
          /\ \E j \in (r.t0 + 1)..(r.t1 - 1) :
                Tok(j) = "," /\ Depth(r.t0, j) > 0
          /\ out[r.p2] = <<"call", "A.g", "3">>

-----------------------------------------------------------------------------
(* C7..C10: what the engine accepts and what it raises                     *)

\* C7: where the grammar requires the symbol or keyword s, only the symbol
\* or keyword s itself is accepted: every token _expect_value let pass is a
\* keyword or a symbol and is the lexeme that was asked for.
C7_ExpectedLexemeItself ==
    \A j \in 1..Len(matched) :
        matched[j][1] = "value" =>
            /\ token_type(Raw(j)) \in {"KEYWORD", "SYMBOL"}
            /\ Raw(j) = matched[j][2]

\* C8: compile_class completes without error only if the stream holds a
\* complete class production: the tokens the parse consumed, up to the
\* closing brace of the class, are the tokens of the stream, one each.
C8_CompleteClass ==
    (pc = "done" /\ err = NoError) =>
        /\ Len(matched) <= Len(src)
        /\ \A j \in 1..Len(matched) : Raw(j) = src[j]

\* C9: compilation ends by running to completion or by an error of the
\* engine's own; no token list makes the engine call itself until the
\* interpreter's call stack is used up.
C9_NoRunawayRecursion == err # "RecursionError"

\* C10: an identifier defined in neither scope and used as a variable
\* raises no error: the segment lookup of its kind never fails.
C10_UndefinedNotFlagged == err # "KeyError"

-----------------------------------------------------------------------------
(* The objects taken alone: what a harness that drives one object leaves   *)
(* of the others.                                                          *)

NoTokenizer ==
    /\ tokens = <<>>
    /\ current_token = None
    /\ src = <<>>
    /\ source = <<>>
    /\ err_line = 0

NewSymbolTable ==
    /\ class_scope = EmptyScope
    /\ sub_scope = EmptyScope
    /\ counters = [k \in ALL_KINDS |-> 0]

NoEngine ==
    /\ class_name = ""
    /\ label_counter = 0
    /\ stack = <<>>
    /\ matched = <<>>
    /\ sub_log = <<>>
    /\ let_log = <<>>
    /\ call_log = <<>>
    /\ xml_mode = FALSE
    /\ indent_count = 0
    /\ expr_log = <<>>

-----------------------------------------------------------------------------
(* SymbolTable, called method by method                                    *)

\* The number of calls made on a SymbolTable.
MaxCalls == 4

SymbolNames == {"x", "y"}

\* The type and the kind of a define call: every kind, a kind in lower
\* case, and a kind the table does not know.
SymbolDefines ==
    {<<"int", "STATIC">>, <<"A", "FIELD">>, <<"int", "ARG">>, <<"A", "VAR">>,
     <<"int", "var">>, <<"int", "LOCAL">>}

InitSymbolTable ==
    /\ pc = "SymbolTable"
    /\ err = NoError
    /\ ret = None
    /\ calls = <<>>
    /\ out = <<>>
    /\ NoTokenizer
    /\ NewSymbolTable
    /\ NoEngine

\* The table after a call that left it as m; err is the call's exception.
SymbolTableCall(m, call) ==
    /\ class_scope' = m.class_scope
    /\ sub_scope' = m.sub_scope
    /\ counters' = m.counters
    /\ err' = m.err
    /\ calls' = Append(calls, call)
    /\ UNCHANGED <<tokens, current_token, class_name, label_counter, out, pc,
                   stack, ret, src, matched, sub_log, let_log, call_log,
                   xml_mode, indent_count, expr_log, source, err_line>>

SymbolTable_define ==
    /\ pc = "SymbolTable"
    /\ Len(calls) < MaxCalls
    /\ \E name \in SymbolNames, d \in SymbolDefines :
          LET m == define([M EXCEPT !.err = NoError], name, d[1], d[2])
          IN  SymbolTableCall(m, [op |-> "define", name |-> name,
                                  type |-> d[1], kind |-> d[2],
                                  ok |-> Ok(m)])

SymbolTable_start_subroutine ==
    /\ pc = "SymbolTable"
    /\ Len(calls) < MaxCalls
    /\ LET m == start_subroutine([M EXCEPT !.err = NoError])
       IN  SymbolTableCall(m, [op |-> "start_subroutine", name |-> "",
                               type |-> "", kind |-> "", ok |-> Ok(m)])

NextSymbolTable == SymbolTable_define \/ SymbolTable_start_subroutine

SpecSymbolTable == InitSymbolTable /\ [][NextSymbolTable]_vars

-----------------------------------------------------------------------------
(* C11..C13: the symbol table                                              *)

\* C11: a call of start_subroutine leaves var_count(ARG) = 0, var_count(VAR)
\* = 0 and the subroutine scope empty, and changes neither the class scope
\* nor the STATIC and FIELD counters.
C11_StartSubroutineFrame ==
    [][SymbolTable_start_subroutine =>
          /\ var_count(M, "ARG")' = 0
          /\ var_count(M, "VAR")' = 0
          /\ sub_scope' = EmptyScope
          /\ class_scope' = class_scope
          /\ var_count(M, "STATIC")' = var_count(M, "STATIC")
          /\ var_count(M, "FIELD")' = var_count(M, "FIELD")]_vars

\* start_subroutine has just been called on a table with a field, a static
\* and a local.
C11_Witness ==
    /\ Len(calls) = 4
    /\ calls[4].op = "start_subroutine"
    /\ calls[3].ok /\ calls[3].kind = "VAR"
    /\ DOMAIN class_scope = {"x", "y"}
    /\ var_count(M, "FIELD") = 1
    /\ var_count(M, "STATIC") = 1
    /\ sub_scope = EmptyScope

\* The calls of define that took effect, by position, and the last call of
\* start_subroutine (0 if there was none).
Defines == {i \in 1..Len(calls) : calls[i].op = "define" /\ calls[i].ok}

Greatest(S) == CHOOSE x \in S : \A y \in S : y <= x

LastStart ==
    Greatest({0} \cup {i \in 1..Len(calls) : calls[i].op = "start_subroutine"})

KindAt(i) == upper(calls[i].kind)

\* The defines whose scope still stands: those of STATIC and FIELD, and
\* those of ARG and VAR made since the last start_subroutine.
Standing ==
    {i \in Defines : KindAt(i) \in {"STATIC", "FIELD"} \/ i > LastStart}

DefinesOf(name, kinds) ==
    {i \in Standing : calls[i].name = name /\ KindAt(i) \in kinds}

\* The define a name resolves to: its latest in the subroutine scope, or,
\* if it has none there, its latest in the class scope.
LatestDefine(name) ==
    IF DefinesOf(name, {"ARG", "VAR"}) # {}
    THEN Greatest(DefinesOf(name, {"ARG", "VAR"}))
    ELSE Greatest(DefinesOf(name, {"STATIC", "FIELD"}))

\* The number of standing defines of the kind of define i made before it.
PriorOfKind(i) ==
    Cardinality({j \in Standing : j < i /\ KindAt(j) = KindAt(i)})

DistinctIndexes(scope) ==
    \A n1, n2 \in DOMAIN scope :
        (n1 # n2 /\ scope[n1].kind = scope[n2].kind)
            => scope[n1].index # scope[n2].index

\* C12: index_of(name) is the number of defines of the same kind made
\* before the name's latest define in its scope (since the last
\* start_subroutine for ARG and VAR, since creation for STATIC and FIELD),
\* and two names of one kind in one scope never share an index.
C12_RunningIndex ==
    /\ \A name \in SymbolNames :
          DefinesOf(name, ALL_KINDS) # {} =>
              /\ has_entry(M, name)
              /\ kind_of(M, name) = KindAt(LatestDefine(name))
              /\ index_of(M, name) = PriorOfKind(LatestDefine(name))
    /\ DistinctIndexes(sub_scope)
    /\ DistinctIndexes(class_scope)

\* A local defined before start_subroutine and again after it, after
\* another local: the indexes restart at 0.
C12_Witness ==
    /\ Len(calls) = 4
    /\ calls[1].op = "define" /\ calls[1].name = "x" /\ calls[1].kind = "VAR"
    /\ calls[2].op = "start_subroutine"
    /\ calls[3].op = "define" /\ calls[3].name = "y" /\ calls[3].kind = "var"
    /\ calls[4].op = "define" /\ calls[4].name = "x" /\ calls[4].kind = "VAR"
    /\ index_of(M, "y") = 0
    /\ index_of(M, "x") = 1

\* kind_of, type_of and index_of of name give the fields of entry.
ResolvesTo(name, entry) ==
    /\ kind_of(M, name) = entry.kind
    /\ type_of(M, name) = entry.type
    /\ index_of(M, name) = entry.index

\* C13: kind_of, type_of and index_of give the subroutine-scope entry of a
\* name that is in both scopes, the class entry of a name only in the class
\* scope, and the undefined sentinel for a name in neither; right after
\* start_subroutine every class-scope name resolves to its class entry.
C13_SubroutineScopeFirst ==
    /\ \A name \in SymbolNames \cup {"z"} :
          IF name \in DOMAIN sub_scope
          THEN ResolvesTo(name, sub_scope[name])
          ELSE IF name \in DOMAIN class_scope
          THEN ResolvesTo(name, class_scope[name])
          ELSE /\ kind_of(M, name) = None
               /\ type_of(M, name) = None
               /\ index_of(M, name) = None
    /\ (calls # <<>> /\ calls[Len(calls)].op = "start_subroutine") =>
          \A name \in DOMAIN class_scope :
              ResolvesTo(name, class_scope[name])

\* x is a static, then also a local that hides it, then start_subroutine
\* is called: x is the static again, and y and z are still undefined.
C13_Witness ==
    /\ Len(calls) = 4
    /\ calls[1].op = "define" /\ calls[1].name = "x"
    /\ calls[1].kind = "STATIC"
    /\ calls[2].op = "define" /\ calls[2].name = "y" /\ calls[2].kind = "ARG"
    /\ calls[3].op = "define" /\ calls[3].name = "x" /\ calls[3].kind = "VAR"
    /\ calls[4].op = "start_subroutine"
    /\ kind_of(M, "x") = "STATIC"
    /\ kind_of(M, "y") = None

-----------------------------------------------------------------------------
(* C14: the two ways to construct the engine                               *)

\* The text of the output stream, line by line.
OutputText(lines) == [i \in 1..Len(lines) |-> line_text(lines[i])]

\* What the engine writes for the token list ts when the tokenizer was
\* advanced once before the engine was constructed on it.
PreAdvancedOutput(ts) == class_xml(NewEngine(advance(NewTokenizer(ts)))).out

\* C14: an engine constructed on a tokenizer that was not advanced writes,
\* for a source it compiles, what an engine constructed on the tokenizer
\* advanced once writes for the same source.
C14_SameOutputEitherWay ==
    (pc = "done" /\ err = NoError /\ ~xml_mode /\ src # <<>>) =>
        OutputText(out) = OutputText(PreAdvancedOutput(src))

-----------------------------------------------------------------------------
(* JackTokenizer, called method by method                                  *)

\* The length of the token lists the tokenizer is driven over.
MaxTokens == 3

RECURSIVE TokenLists(_)
\* the lists of n tokens: an identifier, a literal, a symbol, a string
TokenLists(n) ==
    IF n = 0 THEN {<<>>}
    ELSE {Append(ts, t) : ts \in TokenLists(n - 1),
                          t \in {"x", "1", "(", "\"Hi\""}}

InitTokenizer ==
    /\ pc = "JackTokenizer"
    /\ src \in UNION {TokenLists(n) : n \in 0..MaxTokens}
    /\ tokens = src
    /\ current_token = None
    /\ source = <<>>
    /\ err_line = 0
    /\ err = NoError
    /\ ret = None
    /\ calls = <<>>
    /\ out = <<>>
    /\ NewSymbolTable
    /\ NoEngine

\* The tokenizer after a call that left it as m.
TokenizerCall(m, op) ==
    /\ tokens' = m.tokens
    /\ current_token' = m.current_token
    /\ ret' = m.ret
    /\ calls' = Append(calls, [op |-> op, current |-> m.current_token])
    /\ UNCHANGED <<class_scope, sub_scope, counters, class_name,
                   label_counter, out, pc, stack, err, src, matched, sub_log,
                   let_log, call_log, xml_mode, indent_count, expr_log,
                   source, err_line>>

\* while tokenizer.has_more_tokens(): tokenizer.advance()
JackTokenizer_advance ==
    /\ pc = "JackTokenizer"
    /\ Len(calls) < MaxCalls
    /\ has_more_tokens(M)
    /\ TokenizerCall(advance([M EXCEPT !.ret = None]), "advance")

JackTokenizer_get_next_token ==
    /\ pc = "JackTokenizer"
    /\ Len(calls) < MaxCalls
    /\ TokenizerCall(get_next_token(M), "get_next_token")

NextTokenizer == JackTokenizer_advance \/ JackTokenizer_get_next_token

SpecTokenizer == InitTokenizer /\ [][NextTokenizer]_vars

-----------------------------------------------------------------------------
(* C15: the token cursor                                                   *)

RECURSIVE CurrentAfterAdvance(_)
\* The current token after each call of advance, in the order of the calls.
CurrentAfterAdvance(cs) ==
    IF cs = <<>> THEN <<>>
    ELSE (IF Head(cs).op = "advance" THEN <<Head(cs).current>> ELSE <<>>)
         \o CurrentAfterAdvance(Tail(cs))

\* C15: advance, repeated while has_more_tokens, makes every token of the
\* stream the current token once, in source order, and get_next_token
\* returns the next token and changes neither the current token nor the
\* tokens that remain.
C15_CursorForwardOnly ==
    /\ [](/\ CurrentAfterAdvance(calls) \o tokens = src
          /\ ~has_more_tokens(M) => CurrentAfterAdvance(calls) = src)
    /\ [][JackTokenizer_get_next_token =>
             /\ UNCHANGED <<current_token, tokens>>
             /\ ret' = IF tokens = <<>> THEN None ELSE Head(tokens)]_vars

\* Three tokens consumed, with a peek at the third before it is taken.
C15_Witness ==
    /\ Len(src) = 3
    /\ src[1] = src[2]
    /\ Len(calls) = 4
    /\ calls[3].op = "get_next_token"
    /\ calls[3].current = src[2]
    /\ calls[4].op = "advance"
    /\ tokens = <<>>
    /\ current_token = src[3]

-----------------------------------------------------------------------------
(* VMWriter, called method by method                                       *)

\* The number of lines the writer is driven to write.
MaxLines == 3

WriterCommands == {"add", "shiftleft", "not", "ADD", "Add", "mul", "MUL", ""}

WriterSegments == {"LOCAL", "constant", "THAT", "heap", "Local", ""}

WriterIndexes == {0, 7}

InitVMWriter ==
    /\ pc = "VMWriter"
    /\ src = <<>>
    /\ source = <<>>
    /\ err_line = 0
    /\ err = NoError
    /\ ret = None
    /\ calls = <<>>
    /\ out = <<>>
    /\ NoTokenizer
    /\ NewSymbolTable
    /\ NoEngine

\* The writer after a call that left it as m; calls holds the last call.
VMWriterCall(m, op, arg, index) ==
    /\ out' = m.out
    /\ err' = m.err
    /\ calls' = <<[op |-> op, arg |-> arg, index |-> index, before |-> out]>>
    /\ UNCHANGED <<tokens, current_token, class_scope, sub_scope, counters,
                   class_name, label_counter, pc, stack, ret, src, matched,
                   sub_log, let_log, call_log, xml_mode, indent_count,
                   expr_log, source, err_line>>

VMWriter_write_arithmetic ==
    /\ pc = "VMWriter"
    /\ Len(out) < MaxLines
    /\ \E command \in WriterCommands :
           VMWriterCall(write_arithmetic([M EXCEPT !.err = NoError], command),
                        "write_arithmetic", command, 0)

VMWriter_write_push ==
    /\ pc = "VMWriter"
    /\ Len(out) < MaxLines
    /\ \E segment \in WriterSegments, index \in WriterIndexes :
           VMWriterCall(write_push([M EXCEPT !.err = NoError], segment, index),
                        "write_push", segment, index)

VMWriter_write_pop ==
    /\ pc = "VMWriter"
    /\ Len(out) < MaxLines
    /\ \E segment \in WriterSegments, index \in WriterIndexes :
           VMWriterCall(write_pop([M EXCEPT !.err = NoError], segment, index),
                        "write_pop", segment, index)

NextVMWriter ==
    \/ VMWriter_write_arithmetic
    \/ VMWriter_write_push
    \/ VMWriter_write_pop

SpecVMWriter == InitVMWriter /\ [][NextVMWriter]_vars

-----------------------------------------------------------------------------
(* C16: the writer's guards                                                *)

LastCall == calls[1]

\* The call raised and wrote nothing.
Rejected == err = "ValueError" /\ out = LastCall.before

\* The call wrote the one line, and nothing else.
WroteLine(parts) == err = NoError /\ out = Append(LastCall.before, parts)

\* The eleven commands, as the claim spells them.
ArithmeticCommands ==
    {"add", "sub", "neg", "eq", "gt", "lt", "and", "or", "not", "shiftleft",
     "shiftright"}

\* The eight segments, in the spellings the writer's table lists.
KnownSegments ==
    {"CONST", "ARG", "LOCAL", "STATIC", "THIS", "THAT", "POINTER", "TEMP",
     "constant", "argument", "local", "static", "this", "that", "pointer",
     "temp"}

\* write_push and write_pop with a segment that is not a known one raise and
\* write nothing.
UnknownSegmentRejected ==
    (/\ calls # <<>>
     /\ LastCall.op \in {"write_push", "write_pop"}
     /\ LastCall.arg \notin KnownSegments) => Rejected

\* C16, as stated: write_arithmetic(c) writes exactly one line when c is one
\* of the eleven commands, and for any other c raises and leaves the output
\* unchanged; write_push and write_pop with an unknown segment raise and
\* write nothing.
C16_AnyOtherCommandRaises ==
    /\ (calls # <<>> /\ LastCall.op = "write_arithmetic") =>
           IF LastCall.arg \in ArithmeticCommands
           THEN WroteLine(<<LastCall.arg>>)
           ELSE Rejected
    /\ UnknownSegmentRejected

\* C16, amended: write_arithmetic(c) writes exactly one line, the command in
\* lower case, when c in lower case is one of the eleven commands, and for
\* any other c raises and leaves the output unchanged; write_push and
\* write_pop with an unknown segment raise and write nothing.
C16_LowerCasedCommand ==
    /\ (calls # <<>> /\ LastCall.op = "write_arithmetic") =>
           IF lower(LastCall.arg) \in ArithmeticCommands
           THEN WroteLine(<<lower(LastCall.arg)>>)
           ELSE Rejected
    /\ UnknownSegmentRejected

\* An unknown command rejected after two lines were written: the output
\* keeps the two lines.
C16_Witness ==
    /\ calls # <<>>
    /\ LastCall.op = "write_arithmetic"
    /\ LastCall.arg = "mul"
    /\ Rejected
    /\ out = <<<<"add">>, <<"push", "local", "7">>>>

-----------------------------------------------------------------------------
(* From the source text to the compiled class                              *)

\* The number of pieces the short source texts are put together from.
MaxPieces == 4

\* The lexemes of the source texts, as the sequences of their characters.
Lexemes ==
    {<<"c", "l", "a", "s", "s">>,
     <<"c", "o", "n", "s", "t", "r", "u", "c", "t", "o", "r">>,
     <<"f", "u", "n", "c", "t", "i", "o", "n">>,
     <<"m", "e", "t", "h", "o", "d">>, <<"f", "i", "e", "l", "d">>,
     <<"s", "t", "a", "t", "i", "c">>, <<"v", "a", "r">>, <<"i", "n", "t">>,
     <<"c", "h", "a", "r">>, <<"b", "o", "o", "l", "e", "a", "n">>,
     <<"v", "o", "i", "d">>, <<"t", "r", "u", "e">>,
     <<"f", "a", "l", "s", "e">>, <<"n", "u", "l", "l">>,
     <<"t", "h", "i", "s">>, <<"l", "e", "t">>, <<"d", "o">>, <<"i", "f">>,
     <<"e", "l", "s", "e">>, <<"w", "h", "i", "l", "e">>,
     <<"r", "e", "t", "u", "r", "n">>, <<"f">>, <<"s">>, <<"p">>,
     <<"p", "0">>, <<"p", "1">>, <<"x">>, <<"g">>, <<"y">>, <<"v">>, <<"q">>,
     <<"A">>, <<"v", "0">>, <<"v", "1">>, <<"f", "0">>,
     <<"M", "a", "i", "n">>, <<"m", "a", "i", "n">>, <<"0">>, <<"1">>,
     <<"7">>, <<"3", "2", "7", "6", "7">>, <<"3", "2", "7", "6", "8">>,
     <<"\"", "H", "i", "\"">>}

Chars(token) ==
    IF token \in SYMBOLS THEN <<token>>
    ELSE CHOOSE cs \in Lexemes : Join(cs) = token

WordLike(token) == token \notin SYMBOLS /\ ~is_quoted(token)

RECURSIVE Compact(_)
\* The tokens written with a space only where two of them would run
\* together.
Compact(ts) ==
    IF ts = <<>> THEN <<>>
    ELSE IF Len(ts) = 1 THEN Chars(ts[1])
    ELSE Chars(ts[1])
         \o (IF WordLike(ts[1]) /\ WordLike(ts[2]) THEN <<" ">> ELSE <<>>)
         \o Compact(Tail(ts))

RECURSIVE OnLines(_)
\* The tokens written one on a line, indented.
OnLines(ts) ==
    IF ts = <<>> THEN <<>>
    ELSE <<" ", "\t">> \o Chars(Head(ts)) \o <<"\n">> \o OnLines(Tail(ts))

\* A text that opens with an API comment of two lines and a line comment
\* and closes with a line comment that has no line break after it.
Commented(text) ==
    <<"/", "*", "*", " ", "A", "\n", " ", "*", " ", "{", " ", "*", "/", "\n",
      "/", "/", " ", "}", " ", "/", "*", "\n">>
    \o text \o <<"/", "/", " ", "\"", "e", "n", "d">>

\* Statements with the characters << and >> in an expression.
ShiftStatements ==
    {<<"l", "e", "t", " ", "v", "=", "v", "<", "<", "1", ";">>,
     <<"l", "e", "t", " ", "v", " ", "=", " ", "p", " ", ">", ">", " ", "1", " ", ";">>,
     <<"r", "e", "t", "u", "r", "n", " ", "1", "<", "<", "v", ";">>,
     <<"d", "o", " ", "g", "(", "v", ">", ">", "7", ")", ";">>,
     <<"l", "e", "t", " ", "s", "[", "v", "<", "<", "1", "]", "=", "1", ";">>,
     <<"w", "h", "i", "l", "e", "(", "v", "<", "<", "1", ")", "{", "}">>,
     <<"l", "e", "t", " ", "v", "=", "-", "v", ">", ">", "(", "1", ")", ";">>}

ShiftTexts ==
    {Compact(StmtHead) \o st \o <<"\n", "}", "}", "\n">> :
        st \in ShiftStatements}

RECURSIVE PieceTexts(_)
\* the texts of n pieces: a name, an invalid character, a line break, the
\* comment marks, a symbol, a space
PieceTexts(n) ==
    IF n = 0 THEN {<<>>}
    ELSE {text \o piece :
            text \in PieceTexts(n - 1),
            piece \in {<<"x">>, <<"#">>, <<"\n">>, <<"/", "*">>, <<"*", "/">>,
                       <<"/", "/">>, <<"<">>, <<" ">>}}

SourceClasses ==
    BaseClasses \cup {TestClass}
    \cup {StmtClass(<<"let", "v", "=", "32767", "+", "32768", "+", "0", ";">>)}

SourceTexts ==
    {Compact(ts) : ts \in SourceClasses}
    \cup {Commented(OnLines(ts)) : ts \in SourceClasses}
    \cup ShiftTexts
    \cup UNION {PieceTexts(n) : n \in 0..MaxPieces}

InitSource ==
    /\ pc = "tokenize"
    /\ source \in SourceTexts
    /\ err_line = 0
    /\ src = <<>>
    /\ calls = <<>>
    /\ tokens = <<>>
    /\ current_token = None
    /\ NewSymbolTable
    /\ NoEngine
    /\ out = <<>>
    /\ ret = None
    /\ err = NoError

\* JackTokenizer(input_stream): the tokens of the text, or the error of
\* _tokenize.  The engine is then constructed on the tokenizer, advanced
\* once or not.
JackTokenizer_init ==
    /\ pc = "tokenize"
    /\ LET r == tokenize(source)
       IN  IF r.line # 0
           THEN /\ err' = "JackSyntaxError"
                /\ err_line' = r.line
                /\ pc' = "error"
                /\ UNCHANGED <<tokens, current_token, src>>
           ELSE /\ \E t \in {NewTokenizer(r.tokens),
                             advance(NewTokenizer(r.tokens))} :
                       /\ tokens' = t.tokens
                       /\ current_token' = t.current_token
                /\ src' = r.tokens
                /\ pc' = "init"
                /\ UNCHANGED <<err, err_line>>
    /\ UNCHANGED <<class_scope, sub_scope, counters, class_name,
                   label_counter, out, stack, ret, matched, sub_log, let_log,
                   call_log, xml_mode, indent_count, expr_log, source, calls>>

NextSource == JackTokenizer_init \/ Next

SpecSource == InitSource /\ [][NextSource]_vars

-----------------------------------------------------------------------------
(* C17: the line of an invalid character                                   *)

\* The positions of the source text whose character no token can hold.
UnrecognizedAt ==
    {i \in 1..Len(source) :
        source[i] \notin SYMBOLS \cup WordChars \cup Spaces \cup {"\n", "\""}}

\* The 1-based line of position i in the source text.
OriginalLine(i) == 1 + Cardinality({j \in 1..(i - 1) : source[j] = "\n"})

\* C17: when tokenization fails, the line number of the error is the line,
\* in the original source text, of an unrecognized character, also when
\* comments come before it.
C17_ErrorLineInOriginal ==
    (pc = "error" /\ err_line # 0) =>
        \E i \in UnrecognizedAt : err_line = OriginalLine(i)

-----------------------------------------------------------------------------
(* C18: the range of an integer constant                                   *)

\* C18: the value of every integer-constant token the engine has read lies
\* in 0..32767, and no line of the output pushes a greater constant.
C18_IntConstantInRange ==
    /\ \A i \in 1..Len(matched) :
           (matched[i][1] = "type" /\ matched[i][2] = "INT_CONST") =>
               int_val(matched[i][3]) \in 0..32767
    /\ \A i \in 1..Len(out) :
           \A n \in IntLiterals :
               out[i] = <<"push", "constant", ToString(n)>> => n <= 32767

-----------------------------------------------------------------------------
(* C19: expressions                                                        *)

BinaryOperators == {"+", "-", "*", "/", "&", "|", "<", ">", "="}

\* The VM command of a binary operator, as a line of the output.
VmCommand(op) ==
    CASE op = "+" -> <<"add">>
      [] op = "-" -> <<"sub">>
      [] op = "&" -> <<"and">>
      [] op = "|" -> <<"or">>
      [] op = "<" -> <<"lt">>
      [] op = ">" -> <<"gt">>
      [] op = "=" -> <<"eq">>
      [] op = "*" -> <<"call", "Math.multiply", "2">>
      [] op = "/" -> <<"call", "Math.divide", "2">>

\* The tokens of the expression of log entry e that are its operators: the
\* operator symbols outside every bracket that follow a term (a minus that
\* follows no term is a sign).
OperatorsAt(e) ==
    {j \in (e.t0 + 2)..e.t1 :
        /\ Tok(j) \in BinaryOperators
        /\ Depth(e.t0, j) = 0
        /\ Tok(j - 1) \notin BinaryOperators \cup {"~"}}

\* The i-th operator of e, and the tokens of its i-th term (the first is
\* term 0).
OperatorAt(e, i) ==
    CHOOSE j \in OperatorsAt(e) :
        Cardinality({k \in OperatorsAt(e) : k < j}) = i - 1

TermFirst(e, i) == IF i = 0 THEN e.t0 + 1 ELSE OperatorAt(e, i) + 1

TermLast(e, i) ==
    IF i = Cardinality(OperatorsAt(e)) THEN e.t1 ELSE OperatorAt(e, i + 1) - 1

\* The length of the output after the code of the i-th term of e, and after
\* the command that follows that code.
TermEnd(e, i) == e.ends[2 * i + 1]

CommandEnd(e, i) == e.ends[2 * i + 2]

TermStart(e, i) == IF i = 0 THEN e.p0 ELSE CommandEnd(e, i - 1)

\* C19: the code of t0 op1 t1 ... opn tn is code(t0), code(t1), vm(op1), ...,
\* code(tn), vm(opn), with vm as VmCommand: the command of an operator is
\* the one line after the code of the term on its right, whatever the
\* operators are; a term that is one decimal literal is one push of it; and
\* the code of an expression inside a term (in parentheses or brackets) lies
\* whole within the code of that term.
C19_LeftToRight ==
    \A k \in 1..Len(expr_log) :
        LET e == expr_log[k]
            n == Cardinality(OperatorsAt(e))
        IN  /\ Len(e.ends) = 2 * (n + 1)
            /\ CommandEnd(e, 0) = TermEnd(e, 0)
            /\ \A i \in 0..n :
                   /\ TermStart(e, i) < TermEnd(e, i)
                   /\ (TermFirst(e, i) = TermLast(e, i)
                       /\ isdigit(Tok(TermFirst(e, i)))) =>
                          /\ TermEnd(e, i) = TermStart(e, i) + 1
                          /\ out[TermEnd(e, i)] =
                                 <<"push", "constant", Tok(TermFirst(e, i))>>
            /\ \A i \in 1..n :
                   /\ CommandEnd(e, i) = TermEnd(e, i) + 1
                   /\ out[CommandEnd(e, i)] = VmCommand(Tok(OperatorAt(e, i)))
            /\ \A l \in 1..Len(expr_log) :
                   (e.t0 < expr_log[l].t0 /\ expr_log[l].t1 < e.t1) =>
                       \E i \in 0..n :
                           /\ TermFirst(e, i) <= expr_log[l].t0
                           /\ expr_log[l].t1 <= TermLast(e, i)
                           /\ TermStart(e, i) <= expr_log[l].p0
                           /\ CommandEnd(expr_log[l],
                                         Len(expr_log[l].ends) \div 2 - 1)
                                  <= TermEnd(e, i)

\* 1 + v * 1 compiled: the sum is made before the product.
C19_Witness ==
    /\ pc = "done"
    /\ err = NoError
    /\ \E k \in 1..Len(expr_log) :
           LET e == expr_log[k]
           IN  /\ Cardinality(OperatorsAt(e)) = 2
               /\ Tok(OperatorAt(e, 1)) = "+"
               /\ Tok(OperatorAt(e, 2)) = "*"
               /\ SubSeq(out, e.p0 + 1, CommandEnd(e, 2)) =
                      <<<<"push", "constant", "1">>, <<"push", "local", "0">>,
                        <<"add">>, <<"push", "constant", "1">>,
                        <<"call", "Math.multiply", "2">>>>

-----------------------------------------------------------------------------
(* C20: the shift operators                                                *)

\* C20: whatever the source text, the tokenizer yields no token << or >>,
\* the engine writes no shiftleft and no shiftright, and the compilation of
\* a text with << or >> in an expression ends in a syntax error.
C20_ShiftUnreachable ==
    /\ \A i \in 1..Len(src) : src[i] \notin {"<<", ">>"}
    /\ \A i \in 1..Len(tokens) : tokens[i] \notin {"<<", ">>"}
    /\ current_token \notin {"<<", ">>"}
    /\ \A i \in 1..Len(out) : out[i] \notin {<<"shiftleft">>, <<"shiftright">>}
    /\ (pc \in {"done", "error"} /\ source \in ShiftTexts) =>
           /\ pc = "error"
           /\ err = "JackSyntaxError"
           /\ err_line = 0

\* let v=v<<1; compiled: the two characters are two tokens, the first is
\* read as the operator and the second is no term.
C20_Witness ==
    /\ pc = "error"
    /\ source \in ShiftTexts
    /\ ~xml_mode
    /\ err = "JackSyntaxError"
    /\ Len(matched) < Len(src)
    /\ Raw(Len(matched)) = "<"
    /\ src[Len(matched) + 1] = "<"
    /\ src[Len(matched) + 2] = "1"
    /\ out[Len(out)] = <<"push", "local", "0">>

=============================================================================
